---- MODULE Spec2Model ----
(***************************************************************************)
(* Model of scripts/visualizer.py of hand-tracking-streamer.               *)
(*                                                                         *)
(* Spec / FairSpec : the threads of StreamReceiver (receiver thread, one   *)
(*   handler thread per accepted connection), the HandState fields they    *)
(*   write, and the main thread (consumer loop of run_visualizer followed  *)
(*   by StreamReceiver.stop).  One step per access to shared state.  The   *)
(*   stored values are provenance tags: the id of the record they were     *)
(*   converted from.                                                       *)
(* FrameSpec, CarrySpec : one read loop from the bytes to the lines handed *)
(*   to _handle_line, on one connection and over several.                  *)
(* ParseSpec, PoseSpec, PipeSpec, QuatSpec, SmoothSpec : the values that   *)
(*   _handle_line, the HandStates and the consumer loop compute.           *)
(* TallySpec : run_tcp of scripts/interarrival.py.                         *)
(***************************************************************************)
EXTENDS Integers, Sequences, FiniteSets, TLC

\* ------------------------------------------------------------------ bounds
\* records the packet transport delivers, records all connections together
\* deliver, and connections the accept loop accepts
MaxDatagramRecs == 3
MaxConnRecs == 2
MaxConns == 2
\* records the peers send in FairSpec
MaxFairRecs == 1
\* FrameSpec: sends of the peer, and bytes one read of a connection returns
MaxMessages == 2
MaxChunk == 4
\* PoseSpec: records applied to the HandStates
MaxPoseRecs == 3
\* ParseSpec: fields after the label of a line
MaxFields == 3
\* QuatSpec: largest component of the quaternion converted
MaxComponent == 2
\* SmoothSpec: ticks of the consumer loop
MaxTicks == 3

\* ------------------------------------------------------- program constants
WristFloats == 7
RowFloats == 3
WristRows == 21
LastIndex == 19

\* Python's None, and a value that is not None, for the optional fields
None == <<>>
Some(v) == <<v>>
Value(o) == o[1]
\* no side in work / no exception raised
NoSide == "none"
NoError == "none"
Side == {"right", "left"}
Conns == 1..MaxConns
\* Writer threads: 0 is the receiver thread (packet transport), c >= 1 is the
\* handler thread of connection c.
Writers == 0..MaxConns

VARIABLES
    protocol,       \* StreamReceiver.protocol
    show_sides,     \* the sides with show_left / show_right set
    show_fingers,   \* run_visualizer's show_fingers
    stop_flag,      \* StreamReceiver._stop
    rpc,            \* position of StreamReceiver._thread (_run_udp / _run_tcp)
    sock,           \* sock / server_sock
    newconn,        \* the connection the accept loop holds between accept and start
    conn,           \* conn of each handler thread
    hpc,            \* position of each handler thread (_handle_tcp_conn)
    conn_threads,   \* StreamReceiver._conn_threads
    wr,             \* the update each writer thread is executing
    hands,          \* StreamReceiver.hands
    nrecs,          \* number of records received so far
    budget,         \* number of records the peers will still send
    mpc,            \* position of the main thread (run_visualizer, then stop)
    mside,          \* the side the consumer tick is working on
    t_lm,           \* world_points: loaded self.landmarks_local
    t_quat,         \* world_points: loaded self.wrist_quat
    pts,            \* right_points / left_points of the current side
    wpt,            \* right_wrist_point / left_wrist_point of the current side
    m_error,        \* the exception that ended the consumer loop, if any
    snap,           \* stop: the rest of list(self._conn_threads)
    examined,       \* stop: what it did with each handler thread
    fpc,            \* FrameSpec: position of the one read loop it follows
    f_end,          \* FrameSpec: what ended that loop
    wire,           \* FrameSpec: what the peer has sent and the loop has not read
    data,           \* FrameSpec: data, the bytes of the last read
    buffer,         \* FrameSpec: buffer of _handle_tcp_conn
    pending,        \* FrameSpec: the rest of message.splitlines() in _run_udp
    handled,        \* FrameSpec: the lines _handle_line was called with, in order
    decoded,        \* FrameSpec: the text of the chunks (the messages) that decoded, in order
    dropped,        \* FrameSpec: number of reads whose bytes did not decode
    unity,          \* PoseSpec: the values of the last record stored for each side, as sent
    cached,         \* cached_right_points / cached_left_points
    segments,       \* segments of the current side
    target,         \* center and extent of the bounds computation of the last tick
    ppc,            \* ParseSpec: position of the call of _handle_line
    pline,          \* ParseSpec: line, the argument of _handle_line
    presult,        \* ParseSpec: parsed, what _parse_line returned
    qpc,            \* QuatSpec: position of the call of _convert_quat
    q_arg,          \* QuatSpec: quat, the argument of _convert_quat
    q_mat,          \* QuatSpec: r_rh, the argument of _matrix_to_quat
    q_ret,          \* QuatSpec: what _matrix_to_quat returned
    alpha,          \* run_visualizer's alpha
    ema_center,     \* ema_center
    ema_limit,      \* ema_limit
    nticks,         \* SmoothSpec: number of ticks of the consumer loop so far
    last_points     \* SmoothSpec: points_for_bounds of the tick before

recvVars == <<rpc, sock, newconn, conn, hpc, conn_threads, nrecs, budget>>
storeVars == <<wr, hands>>
mainVars == <<mpc, mside, t_lm, t_quat, pts, wpt, m_error, snap, examined>>
cfgVars == <<protocol, show_sides, show_fingers>>
frameVars == <<fpc, f_end, wire, data, buffer, pending, handled, decoded, dropped>>
poseVars == <<unity, cached, segments, target>>
parseVars == <<ppc, pline, presult>>
quatVars == <<qpc, q_arg, q_mat, q_ret>>
smoothVars == <<alpha, ema_center, ema_limit, nticks, last_points>>
calcVars == <<quatVars, smoothVars>>
vars == <<cfgVars, stop_flag, recvVars, storeVars, mainVars, frameVars, poseVars, parseVars,
          calcVars>>

NoUpd == [step |-> "idle"]

\* HandState(side) as constructed in StreamReceiver.__init__
HandState == [wrist_position |-> None, wrist_quat |-> None,
              landmarks_local |-> None, last_update |-> "constructed"]

\* The payload sizes a record can arrive with: below and at the minimum of its
\* kind, with and without a remainder, and a hand of 20 rows.
Sizes(kind) == IF kind = "wrist" THEN {WristFloats - 1, WristFloats}
               ELSE {RowFloats - 1, RowFloats + 1, (LastIndex + 1) * RowFloats}

\* The records a read can deliver: what _parse_line returns, with the payload
\* reduced to its length, and the arrival number id as the record's tag.
RecordsIn(id) ==
    UNION { { [side |-> s, kind |-> k, size |-> n, id |-> id] : n \in Sizes(k) } :
              s \in Side, k \in {"wrist", "landmarks"} }

\* Spec and FairSpec follow the threads and not the content of what they
\* read: the variables of FrameSpec stay as they are here.
FrameOff ==
    /\ fpc = "off"
    /\ f_end = NoError
    /\ wire = <<>>
    /\ data = <<>>
    /\ buffer = <<>>
    /\ pending = <<>>
    /\ handled = <<>>
    /\ decoded = <<>>
    /\ dropped = 0

\* and so do those of ParseSpec
ParseOff ==
    /\ ppc = "off"
    /\ pline = <<>>
    /\ presult = None

\* main's defaults of --alpha and --axis-limit, 0.1 and 0.4.  A number
\* that is no integer is written as numerator n over denominator d.
AlphaDefault == [n |-> 1, d |-> 10]
AxisLimitDefault == [n |-> 2, d |-> 5]

\* no call of _convert_quat is followed on its own
QuatOff ==
    /\ qpc = "off"
    /\ q_arg = <<>>
    /\ q_mat = None
    /\ q_ret = None

\* ema_center = None and ema_limit = axis_limit, before the consumer loop
SmoothOff ==
    /\ alpha = AlphaDefault
    /\ ema_center = None
    /\ ema_limit = AxisLimitDefault
    /\ nticks = 0
    /\ last_points = None

CalcOff == QuatOff /\ SmoothOff

\* The state after StreamReceiver.__init__ and start(), at the first test of
\* the consumer loop.
Constructed ==
    /\ protocol \in {"udp", "tcp"}
    /\ show_sides = Side
    /\ stop_flag = FALSE
    /\ rpc = "bind"
    /\ sock = "created"
    /\ newconn = 0
    /\ conn = [c \in Conns |-> "none"]
    /\ hpc = [c \in Conns |-> "none"]
    /\ conn_threads = <<>>
    /\ wr = [t \in Writers |-> NoUpd]
    /\ hands = [s \in Side |-> HandState]
    /\ nrecs = 0
    /\ mpc = "tick"
    /\ mside = NoSide
    /\ t_lm = None
    /\ t_quat = None
    /\ pts = None
    /\ wpt = None
    /\ m_error = NoError
    /\ snap = <<>>
    /\ examined = [c \in Conns |-> "no"]
    /\ unity = [s \in Side |-> [wrist |-> None, landmarks |-> None]]
    /\ cached = [s \in Side |-> None]
    /\ segments = <<>>
    /\ target = None

Init ==
    /\ Constructed
    /\ FrameOff
    /\ ParseOff
    /\ CalcOff
    /\ show_fingers \in BOOLEAN
    /\ budget = IF protocol = "udp" THEN MaxDatagramRecs ELSE MaxConnRecs

\* ------------------------------------------------ HandState.update_* steps

\* _handle_line after a successful parse: hand = self.hands[side], then the
\* call of update_wrist or update_landmarks.
BeginUpdate(t, r) == [wr EXCEPT ![t] = [step |-> "enter", rec |-> r]]

\* where writer thread t continues when its update returns
ReturnTo(t) ==
    IF t = 0 THEN /\ rpc' = "loop"
                  /\ UNCHANGED hpc
             ELSE /\ hpc' = [hpc EXCEPT ![t] = "loop"]
                  /\ UNCHANGED rpc

\* UpdateEnter with a record too short to be stored clearing what was stored
UpdateEnterClearing(t) ==
    /\ wr[t].step = "enter"
    /\ LET r == wr[t].rec
           min == IF r.kind = "wrist" THEN WristFloats ELSE RowFloats
       IN IF r.size < min
          THEN /\ wr' = [wr EXCEPT ![t] = NoUpd]
               /\ hands' = [hands EXCEPT ![r.side] =
                              IF r.kind = "wrist"
                              THEN [@ EXCEPT !.wrist_position = None, !.wrist_quat = None]
                              ELSE [@ EXCEPT !.landmarks_local = None]]
               /\ ReturnTo(t)
          ELSE /\ wr' = [wr EXCEPT ![t].step =
                            IF r.kind = "wrist" THEN "pos" ELSE "lm"]
               /\ UNCHANGED <<rpc, hpc, hands>>
    /\ UNCHANGED <<cfgVars, frameVars, poseVars, parseVars, calcVars, stop_flag, sock, newconn, conn, conn_threads, nrecs, budget,
                   mainVars>>

\* values.size < 7: return   /   values.size < 3: return
UpdateEnter(t) ==
    /\ wr[t].step = "enter"
    /\ LET r == wr[t].rec
           min == IF r.kind = "wrist" THEN WristFloats ELSE RowFloats
       IN IF r.size < min
          THEN /\ wr' = [wr EXCEPT ![t] = NoUpd]
               /\ ReturnTo(t)
          ELSE /\ wr' = [wr EXCEPT ![t].step =
                            IF r.kind = "wrist" THEN "pos" ELSE "lm"]
               /\ UNCHANGED <<rpc, hpc>>
    /\ UNCHANGED <<cfgVars, frameVars, poseVars, parseVars, calcVars, stop_flag, sock, newconn, conn, conn_threads, nrecs, budget,
                   hands, mainVars>>

\* self.wrist_position = _convert_vec(values[:3])
WriteWristPosition(t) ==
    /\ wr[t].step = "pos"
    /\ hands' = [hands EXCEPT ![wr[t].rec.side].wrist_position = Some(wr[t].rec.id)]
    /\ wr' = [wr EXCEPT ![t].step = "quat"]
    /\ UNCHANGED <<cfgVars, frameVars, poseVars, parseVars, calcVars, stop_flag, recvVars, mainVars>>

\* self.wrist_quat = _convert_quat(values[3:7])
WriteWristQuat(t) ==
    /\ wr[t].step = "quat"
    /\ hands' = [hands EXCEPT ![wr[t].rec.side].wrist_quat = Some(wr[t].rec.id)]
    /\ wr' = [wr EXCEPT ![t].step = "stamp"]
    /\ UNCHANGED <<cfgVars, frameVars, poseVars, parseVars, calcVars, stop_flag, recvVars, mainVars>>

\* The array update_landmarks builds: one row per whole triple, every row
\* tagged with the record it was converted from, its index and the row count.
LandmarkRows(r) ==
    [i \in 1..(r.size \div RowFloats) |->
        [rec |-> r.id, row |-> i, of |-> r.size \div RowFloats]]

\* WriteLandmarks as an in-place write of the stored array caught after its
\* first row: the rest of the rows are still those of the previous record.
WriteLandmarksInPlace(t) ==
    /\ wr[t].step = "lm"
    /\ LET new == LandmarkRows(wr[t].rec)
           old == hands[wr[t].rec.side].landmarks_local
           mix == [i \in 1..Len(new) |->
                     IF i > 1 /\ i <= Len(Value(old)) THEN Value(old)[i] ELSE new[i]]
       IN hands' = [hands EXCEPT ![wr[t].rec.side].landmarks_local =
                       IF old = None THEN Some(new) ELSE Some(mix)]
    /\ wr' = [wr EXCEPT ![t].step = "stamp"]
    /\ UNCHANGED <<cfgVars, frameVars, poseVars, parseVars, calcVars, stop_flag, recvVars, mainVars>>

\* self.landmarks_local = (_UNITY_TO_RH @ reshaped.T).T : one reference store
WriteLandmarks(t) ==
    /\ wr[t].step = "lm"
    /\ hands' = [hands EXCEPT
                   ![wr[t].rec.side].landmarks_local =
                       Some(LandmarkRows(wr[t].rec))]
    /\ wr' = [wr EXCEPT ![t].step = "stamp"]
    /\ UNCHANGED <<cfgVars, frameVars, poseVars, parseVars, calcVars, stop_flag, recvVars, mainVars>>

\* self.last_update = time.monotonic(), and the return to the read loop.
\* Nothing reads the stamp: only whether an update has taken one is kept.
WriteLastUpdate(t) ==
    /\ wr[t].step = "stamp"
    /\ hands' = [hands EXCEPT ![wr[t].rec.side].last_update = "updated"]
    /\ wr' = [wr EXCEPT ![t] = NoUpd]
    /\ ReturnTo(t)
    /\ UNCHANGED <<cfgVars, frameVars, poseVars, parseVars, calcVars, stop_flag, sock, newconn, conn, conn_threads, nrecs, budget,
                   mainVars>>

Update(t) ==
    \/ UpdateEnter(t)
    \/ WriteWristPosition(t)
    \/ WriteWristQuat(t)
    \/ WriteLandmarks(t)
    \/ WriteLastUpdate(t)

\* ------------------------------------------- StreamReceiver._thread (_run)

\* sock.bind((self.host, self.port)), before the try block: an OSError ends
\* the thread and the socket is never closed by the code.
RecvBind ==
    /\ rpc = "bind"
    /\ \/ /\ sock' = "listening"
          /\ rpc' = "loop"
       \/ /\ rpc' = "failed"
          /\ UNCHANGED sock
    /\ UNCHANGED <<cfgVars, frameVars, poseVars, parseVars, calcVars, stop_flag, newconn, conn, hpc, conn_threads, nrecs, budget,
                   storeVars, mainVars>>

\* while not self._stop.is_set():
RecvLoopCheck ==
    /\ rpc = "loop"
    /\ rpc' = IF stop_flag THEN "close" ELSE "wait"
    /\ UNCHANGED <<cfgVars, frameVars, poseVars, parseVars, calcVars, stop_flag, sock, newconn, conn, hpc, conn_threads,
                   nrecs, budget, storeVars, mainVars>>

\* _run_udp: sock.recvfrom with its 0.5 s timeout, decode, splitlines and
\* _handle_line up to the call of update_*.
UdpRecv ==
    /\ protocol = "udp"
    /\ rpc = "wait"
    /\ \/ /\ rpc' = "loop"                  \* socket.timeout: continue
          /\ UNCHANGED <<wr, nrecs, budget>>
       \/ /\ rpc' = "close"                 \* OSError: break
          /\ UNCHANGED <<wr, nrecs, budget>>
       \/ /\ rpc' = "loop"                  \* UnicodeDecodeError, or no line parses
          /\ UNCHANGED <<wr, nrecs, budget>>
       \/ /\ budget > 0
          /\ budget' = budget - 1
          /\ \E r \in RecordsIn(nrecs + 1) : wr' = BeginUpdate(0, r)
          /\ nrecs' = nrecs + 1
          /\ rpc' = "handle"
    /\ UNCHANGED <<cfgVars, frameVars, poseVars, parseVars, calcVars, stop_flag, sock, newconn, conn, hpc, conn_threads,
                   hands, mainVars>>

\* The connection server_sock.accept() returns next.
FreeConn == CHOOSE c \in Conns : conn[c] = "none" /\ \A d \in 1..(c - 1) : conn[d] # "none"

\* _run_tcp: server_sock.accept() with its 0.5 s timeout, and the Thread object
TcpAccept ==
    /\ protocol = "tcp"
    /\ rpc = "wait"
    /\ \/ /\ rpc' = "loop"                  \* socket.timeout: continue
          /\ UNCHANGED <<newconn, conn, hpc>>
       \/ /\ rpc' = "close"                 \* any other OSError leaves through finally
          /\ UNCHANGED <<newconn, conn, hpc>>
       \/ /\ \E c \in Conns : conn[c] = "none"
          /\ conn' = [conn EXCEPT ![FreeConn] = "open"]
          /\ hpc' = [hpc EXCEPT ![FreeConn] = "created"]
          /\ newconn' = FreeConn
          /\ rpc' = "append"
    /\ UNCHANGED <<cfgVars, frameVars, poseVars, parseVars, calcVars, stop_flag, sock, conn_threads, nrecs, budget, storeVars,
                   mainVars>>

\* self._conn_threads.append(thread)
TcpAppend ==
    /\ rpc = "append"
    /\ conn_threads' = Append(conn_threads, newconn)
    /\ rpc' = "start"
    /\ UNCHANGED <<cfgVars, frameVars, poseVars, parseVars, calcVars, stop_flag, sock, newconn, conn, hpc, nrecs, budget, storeVars,
                   mainVars>>

\* thread.start()
TcpStart ==
    /\ rpc = "start"
    /\ hpc' = [hpc EXCEPT ![newconn] = "loop"]
    /\ newconn' = 0
    /\ rpc' = "loop"
    /\ UNCHANGED <<cfgVars, frameVars, poseVars, parseVars, calcVars, stop_flag, sock, conn, conn_threads, nrecs, budget, storeVars,
                   mainVars>>

\* finally: sock.close() / server_sock.close()
RecvClose ==
    /\ rpc = "close"
    /\ sock' = "closed"
    /\ rpc' = "done"
    /\ UNCHANGED <<cfgVars, frameVars, poseVars, parseVars, calcVars, stop_flag, newconn, conn, hpc, conn_threads, nrecs, budget,
                   storeVars, mainVars>>

Receiver ==
    \/ RecvBind
    \/ RecvLoopCheck
    \/ UdpRecv
    \/ TcpAccept
    \/ TcpAppend
    \/ TcpStart
    \/ RecvClose
    \/ (rpc = "handle" /\ Update(0))

\* ------------------------------------------------------ _handle_tcp_conn

\* ConnLoopCheck as "while True:": the stop flag is not looked at
ConnLoopCheckIgnoringStop(c) ==
    /\ hpc[c] = "loop"
    /\ hpc' = [hpc EXCEPT ![c] = "wait"]
    /\ UNCHANGED <<cfgVars, frameVars, poseVars, parseVars, calcVars, stop_flag, rpc, sock, newconn, conn, conn_threads,
                   nrecs, budget, storeVars, mainVars>>

\* while not self._stop.is_set():
ConnLoopCheck(c) ==
    /\ hpc[c] = "loop"
    /\ hpc' = [hpc EXCEPT ![c] = IF stop_flag THEN "exit" ELSE "wait"]
    /\ UNCHANGED <<cfgVars, frameVars, poseVars, parseVars, calcVars, stop_flag, rpc, sock, newconn, conn, conn_threads,
                   nrecs, budget, storeVars, mainVars>>

\* ConnRecv with a read error that also ends the accept loop
ConnRecvFatal(c) ==
    /\ hpc[c] = "wait"
    /\ \/ /\ hpc' = [hpc EXCEPT ![c] = "loop"]
          /\ UNCHANGED <<wr, nrecs, budget, rpc>>
       \/ /\ hpc' = [hpc EXCEPT ![c] = "eof"]
          /\ UNCHANGED <<wr, nrecs, budget, rpc>>
       \/ /\ hpc' = [hpc EXCEPT ![c] = "raised"]
          /\ rpc' = IF rpc \in {"loop", "wait"} THEN "close" ELSE rpc
          /\ UNCHANGED <<wr, nrecs, budget>>
       \/ /\ budget > 0
          /\ budget' = budget - 1
          /\ \E r \in RecordsIn(nrecs + 1) : wr' = BeginUpdate(c, r)
          /\ nrecs' = nrecs + 1
          /\ hpc' = [hpc EXCEPT ![c] = "handle"]
          /\ UNCHANGED rpc
    /\ UNCHANGED <<cfgVars, frameVars, poseVars, parseVars, calcVars, stop_flag, sock, newconn, conn, conn_threads,
                   hands, mainVars>>

\* conn.recv(4096) with its 0.5 s timeout, decode, framing and _handle_line up
\* to the call of update_*.  Only socket.timeout is caught: any other OSError
\* leaves the function through "with conn:" as an uncaught exception of this
\* thread.
ConnRecv(c) ==
    /\ hpc[c] = "wait"
    /\ \/ /\ hpc' = [hpc EXCEPT ![c] = "loop"]      \* socket.timeout: continue
          /\ UNCHANGED <<wr, nrecs, budget>>
       \/ /\ hpc' = [hpc EXCEPT ![c] = "eof"]       \* not data: break
          /\ UNCHANGED <<wr, nrecs, budget>>
       \/ /\ hpc' = [hpc EXCEPT ![c] = "raised"]    \* any other OSError
          /\ UNCHANGED <<wr, nrecs, budget>>
       \/ /\ hpc' = [hpc EXCEPT ![c] = "loop"]      \* UnicodeDecodeError, or no line parses
          /\ UNCHANGED <<wr, nrecs, budget>>
       \/ /\ budget > 0
          /\ budget' = budget - 1
          /\ \E r \in RecordsIn(nrecs + 1) : wr' = BeginUpdate(c, r)
          /\ nrecs' = nrecs + 1
          /\ hpc' = [hpc EXCEPT ![c] = "handle"]
    /\ UNCHANGED <<cfgVars, frameVars, poseVars, parseVars, calcVars, stop_flag, rpc, sock, newconn, conn, conn_threads,
                   hands, mainVars>>

\* the positions at which _handle_tcp_conn has left its loop: by the loop
\* test, by break, and by an exception
Leaving == {"exit", "eof", "raised"}

\* ConnExit without "with conn:": the thread ends and the connection stays open
ConnExitLeavingOpen(c) ==
    /\ hpc[c] \in Leaving
    /\ hpc' = [hpc EXCEPT ![c] = "done"]
    /\ UNCHANGED <<cfgVars, frameVars, poseVars, parseVars, calcVars, stop_flag, rpc, sock, newconn, conn, conn_threads,
                   nrecs, budget, storeVars, mainVars>>

\* leaving "with conn:", normally or by an exception, closes the connection;
\* the thread ends
ConnExit(c) ==
    /\ hpc[c] \in Leaving
    /\ conn' = [conn EXCEPT ![c] = "closed"]
    /\ hpc' = [hpc EXCEPT ![c] = "done"]
    /\ UNCHANGED <<cfgVars, frameVars, poseVars, parseVars, calcVars, stop_flag, rpc, sock, newconn, conn_threads, nrecs, budget,
                   storeVars, mainVars>>

Handler(c) ==
    \/ ConnLoopCheck(c)
    \/ ConnRecv(c)
    \/ ConnExit(c)
    \/ (hpc[c] = "handle" /\ Update(c))

\* ------------------------------------- run_visualizer: the consumer loop

\* threading.Thread.is_alive: started and not yet ended
Alive(t) == IF t = 0 THEN rpc \notin {"done", "failed"}
            ELSE hpc[t] \in {"loop", "wait", "handle"} \cup Leaving

FirstSide == IF "right" \in show_sides THEN "right" ELSE "left"

\* while plt.fignum_exists(fig.number): the window is closed by the user at
\* any tick, which leaves the loop for "finally: receiver.stop()".
TickStart ==
    /\ mpc = "tick"
    /\ \/ /\ mpc' = "wp_landmarks"
          /\ mside' = FirstSide
       \/ /\ mpc' = "stop_set"
          /\ mside' = NoSide
    /\ UNCHANGED <<cfgVars, frameVars, poseVars, parseVars, calcVars, stop_flag, recvVars, storeVars, t_lm, t_quat, pts,
                   wpt, m_error, snap, examined>>

\* world_points: if self.landmarks_local is None: return None
WorldPointsCheckLandmarks ==
    /\ mpc = "wp_landmarks"
    /\ mpc' = IF hands[mside].landmarks_local = None THEN "wrist_check"
              ELSE "wp_position"
    /\ UNCHANGED <<cfgVars, frameVars, poseVars, parseVars, calcVars, stop_flag, recvVars, storeVars, mside, t_lm, t_quat,
                   pts, wpt, m_error, snap, examined>>

\* world_points: if self.wrist_position is None or ...
WorldPointsCheckPosition ==
    /\ mpc = "wp_position"
    /\ mpc' = IF hands[mside].wrist_position = None THEN "wp_local"
              ELSE "wp_quat"
    /\ UNCHANGED <<cfgVars, frameVars, poseVars, parseVars, calcVars, stop_flag, recvVars, storeVars, mside, t_lm, t_quat,
                   pts, wpt, m_error, snap, examined>>

\* world_points: ... or self.wrist_quat is None:
WorldPointsCheckQuat ==
    /\ mpc = "wp_quat"
    /\ mpc' = IF hands[mside].wrist_quat = None THEN "wp_local" ELSE "wp_load_lm"
    /\ UNCHANGED <<cfgVars, frameVars, poseVars, parseVars, calcVars, stop_flag, recvVars, storeVars, mside, t_lm, t_quat,
                   pts, wpt, m_error, snap, examined>>

\* world_points: return self.landmarks_local
WorldPointsLocal ==
    /\ mpc = "wp_local"
    /\ LET lm == hands[mside].landmarks_local
       IN pts' = IF lm = None THEN None
                 ELSE Some([lm |-> lm, quat |-> None, pos |-> None])
    /\ mpc' = "wrist_check"
    /\ UNCHANGED <<cfgVars, frameVars, poseVars, parseVars, calcVars, stop_flag, recvVars, storeVars, mside, t_lm, t_quat,
                   wpt, m_error, snap, examined>>

\* WorldPointsLoadLandmarks as a read that waits until no update is executing
WorldPointsLoadLandmarksLocked ==
    /\ mpc = "wp_load_lm"
    /\ \A t \in Writers : wr[t].step = "idle"
    /\ t_lm' = hands[mside].landmarks_local
    /\ mpc' = "wp_load_quat"
    /\ UNCHANGED <<cfgVars, frameVars, poseVars, parseVars, calcVars, stop_flag, recvVars, storeVars, mside, t_quat, pts,
                   wpt, m_error, snap, examined>>

\* world_points: the first argument of _quat_rotate, self.landmarks_local
WorldPointsLoadLandmarks ==
    /\ mpc = "wp_load_lm"
    /\ t_lm' = hands[mside].landmarks_local
    /\ mpc' = "wp_load_quat"
    /\ UNCHANGED <<cfgVars, frameVars, poseVars, parseVars, calcVars, stop_flag, recvVars, storeVars, mside, t_quat, pts,
                   wpt, m_error, snap, examined>>

\* world_points: the second argument, self.wrist_quat, and the call of
\* _quat_rotate, which raises TypeError on a None argument
WorldPointsLoadQuat ==
    /\ mpc = "wp_load_quat"
    /\ IF t_lm = None \/ hands[mside].wrist_quat = None
       THEN /\ m_error' = "TypeError"
            /\ mpc' = "stop_set"
            /\ mside' = NoSide
            /\ t_quat' = None
            /\ t_lm' = None
       ELSE /\ t_quat' = hands[mside].wrist_quat
            /\ mpc' = "wp_load_pos"
            /\ UNCHANGED <<m_error, t_lm, mside>>
    /\ UNCHANGED <<cfgVars, frameVars, poseVars, parseVars, calcVars, stop_flag, recvVars, storeVars, pts, wpt, snap,
                   examined>>

\* world_points: ... + self.wrist_position, and the return
WorldPointsLoadPosition ==
    /\ mpc = "wp_load_pos"
    /\ IF hands[mside].wrist_position = None
       THEN /\ m_error' = "TypeError"
            /\ mpc' = "stop_set"
            /\ mside' = NoSide
            /\ UNCHANGED pts
       ELSE /\ pts' = Some([lm |-> t_lm, quat |-> t_quat,
                            pos |-> hands[mside].wrist_position])
            /\ mpc' = "wrist_check"
            /\ UNCHANGED <<m_error, mside>>
    /\ t_lm' = None
    /\ t_quat' = None
    /\ UNCHANGED <<cfgVars, frameVars, poseVars, parseVars, calcVars, stop_flag, recvVars, storeVars, wpt, snap, examined>>

\* wrist_point: if self.wrist_position is None: return None
WristPointCheck ==
    /\ mpc = "wrist_check"
    /\ mpc' = IF hands[mside].wrist_position = None THEN "fingers"
              ELSE "wrist_load"
    /\ UNCHANGED <<cfgVars, frameVars, poseVars, parseVars, calcVars, stop_flag, recvVars, storeVars, mside, t_lm, t_quat,
                   pts, wpt, m_error, snap, examined>>

\* wrist_point: return self.wrist_position
WristPointLoad ==
    /\ mpc = "wrist_load"
    /\ wpt' = hands[mside].wrist_position
    /\ mpc' = "fingers"
    /\ UNCHANGED <<cfgVars, frameVars, poseVars, parseVars, calcVars, stop_flag, recvVars, storeVars, mside, t_lm, t_quat,
                   pts, m_error, snap, examined>>

\* _finger_segments(wrist, landmarks): the largest row index it reads is 20
\* with 21 or more rows and 19 otherwise; a smaller array raises IndexError.
FingerSegmentsFail(landmarks) ==
    IF Len(landmarks) >= WristRows THEN FALSE
    ELSE Len(landmarks) < LastIndex + 1

\* if show_fingers and points is not None and wrist_point is not None:
\*     segments = _finger_segments(...)
\* then the next side; after the last side the bounds and the drawing, which
\* use only what the main thread holds, and the next tick.
Fingers ==
    /\ mpc = "fingers"
    /\ IF /\ show_fingers /\ pts # None /\ wpt # None
          /\ FingerSegmentsFail(Value(Value(pts).lm))
       THEN /\ m_error' = "IndexError"
            /\ mpc' = "stop_set"
            /\ mside' = NoSide
       ELSE /\ UNCHANGED m_error
            /\ IF mside = "right" /\ "left" \in show_sides
               THEN /\ mside' = "left"
                    /\ mpc' = "wp_landmarks"
               ELSE /\ mside' = NoSide
                    /\ mpc' = "tick"
    /\ pts' = None
    /\ wpt' = None
    /\ UNCHANGED <<cfgVars, frameVars, poseVars, parseVars, calcVars, stop_flag, recvVars, storeVars, t_lm, t_quat, snap,
                   examined>>

Consumer ==
    \/ TickStart
    \/ WorldPointsCheckLandmarks
    \/ WorldPointsCheckPosition
    \/ WorldPointsCheckQuat
    \/ WorldPointsLocal
    \/ WorldPointsLoadLandmarks
    \/ WorldPointsLoadQuat
    \/ WorldPointsLoadPosition
    \/ WristPointCheck
    \/ WristPointLoad
    \/ Fingers

\* ------------------------------------------------- StreamReceiver.stop

\* self._stop.set()
StopSet ==
    /\ mpc = "stop_set"
    /\ stop_flag' = TRUE
    /\ mpc' = "join_main"
    /\ UNCHANGED <<cfgVars, frameVars, poseVars, parseVars, calcVars, recvVars, storeVars, mside, t_lm, t_quat, pts, wpt,
                   m_error, snap, examined>>

\* if self._thread.is_alive():
StopCheckMain ==
    /\ mpc = "join_main"
    /\ mpc' = IF Alive(0) THEN "joining_main" ELSE "snapshot"
    /\ UNCHANGED <<cfgVars, frameVars, poseVars, parseVars, calcVars, stop_flag, recvVars, storeVars, mside, t_lm, t_quat,
                   pts, wpt, m_error, snap, examined>>

\* self._thread.join(timeout=1.0) returns: the thread has ended, or the
\* timeout has expired.
StopJoinMain ==
    /\ mpc = "joining_main"
    /\ mpc' = "snapshot"
    /\ UNCHANGED <<cfgVars, frameVars, poseVars, parseVars, calcVars, stop_flag, recvVars, storeVars, mside, t_lm, t_quat,
                   pts, wpt, m_error, snap, examined>>

\* for thread in list(self._conn_threads):
StopSnapshot ==
    /\ mpc = "snapshot"
    /\ snap' = conn_threads
    /\ mpc' = "join_conns"
    /\ UNCHANGED <<cfgVars, frameVars, poseVars, parseVars, calcVars, stop_flag, recvVars, storeVars, mside, t_lm, t_quat,
                   pts, wpt, m_error, examined>>

\* if thread.is_alive(): for the next thread of the copy; the end of the copy
\* ends stop().  A thread that is not alive is not joined: it has ended, or it
\* has not been started yet.
StopCheckConn ==
    /\ mpc = "join_conns"
    /\ IF snap = <<>>
       THEN /\ mpc' = "stopped"
            /\ UNCHANGED <<snap, examined>>
       ELSE IF Alive(Head(snap))
            THEN /\ mpc' = "joining_conn"
                 /\ UNCHANGED <<snap, examined>>
            ELSE /\ examined' = [examined EXCEPT ![Head(snap)] =
                                   IF hpc[Head(snap)] = "done" THEN "ended"
                                   ELSE "unstarted"]
                 /\ snap' = Tail(snap)
                 /\ UNCHANGED mpc
    /\ UNCHANGED <<cfgVars, frameVars, poseVars, parseVars, calcVars, stop_flag, recvVars, storeVars, mside, t_lm, t_quat,
                   pts, wpt, m_error>>

\* thread.join(timeout=0.5) returns: the thread has ended, or the timeout has
\* expired.
StopJoinConn ==
    /\ mpc = "joining_conn"
    /\ examined' = [examined EXCEPT ![Head(snap)] = "joined"]
    /\ snap' = Tail(snap)
    /\ mpc' = "join_conns"
    /\ UNCHANGED <<cfgVars, frameVars, poseVars, parseVars, calcVars, stop_flag, recvVars, storeVars, mside, t_lm, t_quat,
                   pts, wpt, m_error>>

Stop ==
    \/ StopSet
    \/ StopCheckMain
    \/ StopJoinMain
    \/ StopSnapshot
    \/ StopCheckConn
    \/ StopJoinConn

Next ==
    \/ Receiver
    \/ \E c \in Conns : Handler(c)
    \/ Consumer
    \/ Stop

Spec == Init /\ [][Next]_vars

\* ---------------------------------------------------------------------
\* FairSpec: the receiver's threads and stop() under fair scheduling.  The
\* consumer loop writes nothing the other threads read, so the main thread
\* is reduced to the end of its loop followed by stop().  Every thread that
\* can take a step eventually takes one; a socket wait is such a step, since
\* it returns at the latest when its 0.5 s timeout expires.
\* ---------------------------------------------------------------------

\* plt.fignum_exists(fig.number) is false, or an exception leaves the loop
LoopEnd == TickStart /\ mpc' = "stop_set"

FairNext ==
    \/ Receiver
    \/ \E c \in Conns : Handler(c)
    \/ LoopEnd
    \/ Stop

FairInit ==
    /\ Constructed
    /\ FrameOff
    /\ ParseOff
    /\ CalcOff
    /\ show_fingers = FALSE
    /\ budget = MaxFairRecs

FairSpec ==
    /\ FairInit
    /\ [][FairNext]_vars
    /\ WF_vars(Receiver)
    /\ \A c \in Conns : WF_vars(Handler(c))

\* ---------------------------------------------------------------------
\* FrameSpec: one read loop (the loop of _run_udp, or the loop of
\* _handle_tcp_conn for one connection) with the content of what it reads:
\* the bytes, their decoding, the framing, _parse_line and the values that
\* update_wrist and update_landmarks store.
\*
\* A character is a one-character string.  A byte below 0x80 is written as
\* the character it encodes, any other byte as its two hexadecimal digits.
\* A number is an integer: the inputs hold no ".", "e", "_" or "+" and none
\* of the words inf, nan, infinity, which float() accepts as well.
\* ---------------------------------------------------------------------

\* how a call ends: with a value, or with an exception
Return(v) == [return |-> v]
Raise(e) == [raise |-> e]
IsRaise(r) == DOMAIN r = {"raise"}

LF == "\n"
CR == "\r"
Range(s) == {s[i] : i \in 1..Len(s)}
Drop(s, n) == SubSeq(s, n + 1, Len(s))
Min(S) == CHOOSE x \in S : \A y \in S : x <= y
Max(S) == CHOOSE x \in S : \A y \in S : x >= y
Abs(x) == IF x < 0 THEN 0 - x ELSE x

\* The bytes of 0x80 and above that the inputs hold: the first byte of a
\* two-byte sequence, a continuation byte, and a byte no encoding contains.
LeadBytes == {"C3"}
ContinuationBytes == {"A9"}
InvalidBytes == {"FF"}
\* the character a two-byte sequence encodes, written as its code point
CodePoint(lead, cont) == IF lead = "C3" /\ cont = "A9" THEN "U+00E9" ELSE "U+FFFD"

\* the k-th smallest member of a set of places
Kth(S, k) == CHOOSE i \in S : Cardinality({j \in S : j <= i}) = k

\* data.decode("utf-8"): strict, so one byte out of place fails the whole
\* chunk, an incomplete sequence at its end included.  The bytes decode when
\* none is invalid, every first byte of a sequence is followed by a
\* continuation byte and every continuation byte follows a first byte; the
\* text then has one character for each byte that starts one.
Decode(bytes) ==
    LET starts == {i \in 1..Len(bytes) : bytes[i] \notin ContinuationBytes}
    IN IF \A i \in 1..Len(bytes) :
             /\ bytes[i] \notin InvalidBytes
             /\ bytes[i] \in LeadBytes =>
                    i < Len(bytes) /\ bytes[i + 1] \in ContinuationBytes
             /\ bytes[i] \in ContinuationBytes => i > 1 /\ bytes[i - 1] \in LeadBytes
       THEN Return([k \in 1..Cardinality(starts) |->
                       IF bytes[Kth(starts, k)] \in LeadBytes
                       THEN CodePoint(bytes[Kth(starts, k)], bytes[Kth(starts, k) + 1])
                       ELSE bytes[Kth(starts, k)]])
       ELSE Raise("UnicodeDecodeError")

\* str.splitlines(): a line ends at "\n", "\r" or "\r\n"; no empty last line
RECURSIVE SplitLines(_)
SplitLines(text) ==
    IF text = <<>> THEN <<>>
    ELSE LET ends == {i \in 1..Len(text) : text[i] \in {LF, CR}}
             i == Min(ends)
             n == IF text[i] = CR /\ i < Len(text) /\ text[i + 1] = LF
                  THEN i + 1 ELSE i
         IN IF ends = {} THEN <<text>>
            ELSE <<SubSeq(text, 1, i - 1)>> \o SplitLines(Drop(text, n))

\* str.find(sep) + 1: the first place of sep in text, 0 if it has none
Find(text, sep) ==
    IF sep \in Range(text) THEN Min({i \in 1..Len(text) : text[i] = sep}) ELSE 0

\* str.split(sep)
RECURSIVE Split(_, _)
Split(text, sep) ==
    IF Find(text, sep) = 0 THEN <<text>>
    ELSE <<SubSeq(text, 1, Find(text, sep) - 1)>>
             \o Split(Drop(text, Find(text, sep)), sep)

\* str.strip(): the whitespace characters the inputs hold
Whitespace == {" ", CR, LF}
RECURSIVE Strip(_)
Strip(text) ==
    IF text # <<>> /\ Head(text) \in Whitespace THEN Strip(Tail(text))
    ELSE IF text # <<>> /\ text[Len(text)] \in Whitespace
         THEN Strip(SubSeq(text, 1, Len(text) - 1))
         ELSE text

\* str.lower(): the upper-case letters the inputs hold
Lower(text) ==
    [i \in 1..Len(text) |->
        CASE text[i] = "R" -> "r"
          [] text[i] = "W" -> "w"
          [] text[i] = "L" -> "l"
          [] OTHER -> text[i]]

\* word in text
Contains(text, word) ==
    \E i \in 1..(Len(text) - Len(word) + 1) :
        SubSeq(text, i, i + Len(word) - 1) = word

\* the substrings _parse_line looks for in the label
Word == [wrist |-> <<"w", "r", "i", "s", "t">>,
         landmarks |-> <<"l", "a", "n", "d", "m", "a", "r", "k", "s">>,
         right |-> <<"r", "i", "g", "h", "t">>,
         left |-> <<"l", "e", "f", "t">>]

Digits == <<"0", "1", "2", "3", "4", "5", "6", "7", "8", "9">>
DigitValue(c) == (CHOOSE i \in 1..Len(Digits) : Digits[i] = c) - 1
RECURSIVE Decimal(_)
Decimal(ds) ==
    IF ds = <<>> THEN 0
    ELSE Len(Digits) * Decimal(SubSeq(ds, 1, Len(ds) - 1)) + DigitValue(ds[Len(ds)])

\* float(part): an optional sign and one or more digits, ValueError otherwise
Float(part) ==
    LET neg == part # <<>> /\ Head(part) = "-"
        ds == IF neg THEN Tail(part) ELSE part
    IN IF ds # <<>> /\ \A i \in 1..Len(ds) : ds[i] \in Range(Digits)
       THEN Return(IF neg THEN 0 - Decimal(ds) ELSE Decimal(ds))
       ELSE Raise("ValueError")

\* Floats with "break" in the place of "continue": the first field that is
\* empty or no number ends the payload
RECURSIVE FloatsUntilBad(_)
FloatsUntilBad(parts) ==
    IF parts = <<>> THEN <<>>
    ELSE IF Head(parts) = <<>> \/ IsRaise(Float(Head(parts))) THEN <<>>
    ELSE <<Float(Head(parts)).return>> \o FloatsUntilBad(Tail(parts))

\* _parse_line: the loop over parts[1:]
RECURSIVE Floats(_)
Floats(parts) ==
    IF parts = <<>> THEN <<>>
    ELSE LET part == Head(parts)
             rest == Floats(Tail(parts))
         IN IF part = <<>> THEN rest                        \* if not part: continue
            ELSE IF IsRaise(Float(part)) THEN rest          \* except ValueError: continue
            ELSE <<Float(part).return>> \o rest

\* ParseLine with "left" looked for before "right"
ParseLineLeftFirst(line) ==
    LET split == Split(line, ",")
        parts == [i \in 1..Len(split) |-> Strip(split[i])]
        label == Lower(parts[1])
        side == IF Contains(label, Word.left) THEN "left"
                ELSE IF Contains(label, Word.right) THEN "right" ELSE ""
        kind == IF Contains(label, Word.wrist) THEN "wrist" ELSE "landmarks"
    IN IF ~Contains(label, Word.wrist) /\ ~Contains(label, Word.landmarks) THEN None
       ELSE IF side = "" THEN None
       ELSE Some([side |-> side, kind |-> kind, floats |-> Floats(Tail(parts))])

\* _parse_line(line): None, or (side, kind, floats)
ParseLine(line) ==
    LET split == Split(line, ",")
        parts == [i \in 1..Len(split) |-> Strip(split[i])]
        label == Lower(parts[1])
        side == IF Contains(label, Word.right) THEN "right"
                ELSE IF Contains(label, Word.left) THEN "left" ELSE ""
        kind == IF Contains(label, Word.wrist) THEN "wrist" ELSE "landmarks"
    IN IF parts = <<>> THEN None
       ELSE IF ~Contains(label, Word.wrist) /\ ~Contains(label, Word.landmarks)
            THEN None
       ELSE IF side = "" THEN None
       ELSE Some([side |-> side, kind |-> kind, floats |-> Floats(Tail(parts))])

\* _UNITY_TO_RH
UNITY_TO_RH == << <<0, 0, 1>>, <<-1, 0, 0>>, <<0, 1, 0>> >>
Axes == 1..RowFloats
\* a @ v, a @ b and a.T for 3x3 arrays and 3-vectors
MatVec(a, v) == [i \in Axes |-> a[i][1] * v[1] + a[i][2] * v[2] + a[i][3] * v[3]]
MatMul(a, b) ==
    [i \in Axes |-> [j \in Axes |-> a[i][1] * b[1][j] + a[i][2] * b[2][j] + a[i][3] * b[3][j]]]
Transpose(a) == [i \in Axes |-> [j \in Axes |-> a[j][i]]]

\* ConvertVec with the transposed matrix, the change of basis the other way
ConvertVecTransposed(vec) == MatVec(Transpose(UNITY_TO_RH), vec)

\* _convert_vec
ConvertVec(vec) == MatVec(UNITY_TO_RH, vec)

RECURSIVE Gcd(_, _)
Gcd(a, b) == IF b = 0 THEN a ELSE Gcd(b, a % b)

\* _quat_normalize: quat / norm, and (0, 0, 0, 1) for norm 0.  The unit
\* quaternion quat / norm is written exactly, as the shortest integer vector
\* that points the same way.
QuatNormalize(quat) ==
    LET g == Gcd(Gcd(Abs(quat[1]), Abs(quat[2])), Gcd(Abs(quat[3]), Abs(quat[4])))
    IN IF g = 0 THEN <<0, 0, 0, 1>>
       ELSE [i \in 1..Len(quat) |-> IF quat[i] < 0 THEN 0 - (Abs(quat[i]) \div g)
                                    ELSE quat[i] \div g]

\* _quat_to_matrix after its first line: the matrix of the unit quaternion
\* q / |q|.  Every entry is an integer over den = q.q: the matrix is written
\* as den and the integer numerators m.
UnitQuatToMatrix(q) ==
    LET x == q[1]
        y == q[2]
        z == q[3]
        w == q[4]
        den == x * x + y * y + z * z + w * w
    IN [den |-> den,
        m |-> << <<den - 2 * (y * y + z * z), 2 * (x * y - w * z), 2 * (x * z + w * y)>>,
                 <<2 * (x * y + w * z), den - 2 * (x * x + z * z), 2 * (y * z - w * x)>>,
                 <<2 * (x * z - w * y), 2 * (y * z + w * x), den - 2 * (x * x + y * y)>> >>]

\* _quat_to_matrix
QuatToMatrix(quat) == UnitQuatToMatrix(QuatNormalize(quat))

\* MatrixToQuat with ">=" in the place of ">" in the tests of the diagonal
MatrixToQuatEarliest(mat) ==
    LET m == mat.m
        one == mat.den
        trace == m[1][1] + m[2][2] + m[3][3]
    IN QuatNormalize(
         IF trace > 0
         THEN <<m[3][2] - m[2][3], m[1][3] - m[3][1], m[2][1] - m[1][2], trace + one>>
         ELSE IF m[1][1] >= m[2][2] /\ m[1][1] >= m[3][3]
         THEN <<one + m[1][1] - m[2][2] - m[3][3], m[1][2] + m[2][1],
                m[1][3] + m[3][1], m[3][2] - m[2][3]>>
         ELSE IF m[2][2] >= m[3][3]
         THEN <<m[1][2] + m[2][1], one + m[2][2] - m[1][1] - m[3][3],
                m[2][3] + m[3][2], m[1][3] - m[3][1]>>
         ELSE <<m[1][3] + m[3][1], m[2][3] + m[3][2],
                one + m[3][3] - m[1][1] - m[2][2], m[2][1] - m[1][2]>>)

\* _matrix_to_quat.  In each branch x, y, z and w are multiplied by the same
\* positive number (2 sqrt(trace + 1) in the first, s in the others, and den),
\* which the final _quat_normalize removes.
MatrixToQuat(mat) ==
    LET m == mat.m
        one == mat.den
        trace == m[1][1] + m[2][2] + m[3][3]
    IN QuatNormalize(
         IF trace > 0
         THEN <<m[3][2] - m[2][3], m[1][3] - m[3][1], m[2][1] - m[1][2], trace + one>>
         ELSE IF m[1][1] > m[2][2] /\ m[1][1] > m[3][3]
         THEN <<one + m[1][1] - m[2][2] - m[3][3], m[1][2] + m[2][1],
                m[1][3] + m[3][1], m[3][2] - m[2][3]>>
         ELSE IF m[2][2] > m[3][3]
         THEN <<m[1][2] + m[2][1], one + m[2][2] - m[1][1] - m[3][3],
                m[2][3] + m[3][2], m[1][3] - m[3][1]>>
         ELSE <<m[1][3] + m[3][1], m[2][3] + m[3][2],
                one + m[3][3] - m[1][1] - m[2][2], m[2][1] - m[1][2]>>)

\* _convert_quat
ConvertQuat(quat) ==
    LET r_unity == QuatToMatrix(quat)
        r_rh == [den |-> r_unity.den,
                 m |-> MatMul(MatMul(UNITY_TO_RH, r_unity.m), Transpose(UNITY_TO_RH))]
    IN MatrixToQuat(r_rh)

\* UpdateWrist without "if values.size < 7: return": the slices of a short
\* payload do not have the shapes the conversions take
UpdateWristUnchecked(hand, values) ==
    IF Len(values) < WristFloats THEN Raise("ValueError")
    ELSE Return([hand EXCEPT
                   !.wrist_position = Some(ConvertVec(SubSeq(values, 1, RowFloats))),
                   !.wrist_quat = Some(ConvertQuat(SubSeq(values, RowFloats + 1, WristFloats))),
                   !.last_update = "updated"])

\* UpdateWrist with the orientation taken from the end of the payload
UpdateWristFromEnd(hand, values) ==
    IF Len(values) < WristFloats THEN Return(hand)
    ELSE Return([hand EXCEPT
                   !.wrist_position = Some(ConvertVec(SubSeq(values, 1, RowFloats))),
                   !.wrist_quat = Some(ConvertQuat(SubSeq(values, Len(values) - RowFloats,
                                                          Len(values)))),
                   !.last_update = "updated"])

\* HandState.update_wrist, as one step
UpdateWrist(hand, values) ==
    IF Len(values) < WristFloats THEN Return(hand)
    ELSE Return([hand EXCEPT
                   !.wrist_position = Some(ConvertVec(SubSeq(values, 1, RowFloats))),
                   !.wrist_quat = Some(ConvertQuat(SubSeq(values, RowFloats + 1, WristFloats))),
                   !.last_update = "updated"])

\* UpdateLandmarks without the cut to a multiple of 3: the floats left over
\* make a last, shorter row
UpdateLandmarksKeepingRest(hand, values) ==
    IF Len(values) < RowFloats THEN Return(hand)
    ELSE LET reshaped == [i \in 1..((Len(values) + RowFloats - 1) \div RowFloats) |->
                            SubSeq(values, RowFloats * (i - 1) + 1,
                                   Min({RowFloats * i, Len(values)}))]
         IN Return([hand EXCEPT
                      !.landmarks_local =
                          Some([i \in 1..Len(reshaped) |->
                                  IF Len(reshaped[i]) = RowFloats
                                  THEN ConvertVec(reshaped[i]) ELSE reshaped[i]]),
                      !.last_update = "updated"])

\* HandState.update_landmarks, as one step
UpdateLandmarks(hand, values) ==
    IF Len(values) < RowFloats THEN Return(hand)
    ELSE LET reshaped == [i \in 1..(Len(values) \div RowFloats) |->
                            SubSeq(values, RowFloats * (i - 1) + 1, RowFloats * i)]
         IN Return([hand EXCEPT
                      !.landmarks_local =
                          Some([i \in 1..Len(reshaped) |-> ConvertVec(reshaped[i])]),
                      !.last_update = "updated"])

\* StreamReceiver._handle_line: the hands after the call, or the exception
\* that leaves it
HandleLine(hs, line) ==
    LET parsed == ParseLine(line)
        side == Value(parsed).side
        r == IF Value(parsed).kind = "wrist"
             THEN UpdateWrist(hs[side], Value(parsed).floats)
             ELSE UpdateLandmarks(hs[side], Value(parsed).floats)
    IN IF parsed = None THEN Return(hs)
       ELSE IF IsRaise(r) THEN r
       ELSE Return([hs EXCEPT ![side] = r.return])

\* ------------------------------------------------- what the peer sends

\* lines of the wire format, without their newline
RightWristLine ==
    <<"R", "i", "g", "h", "t", " ", "W", "r", "i", "s", "t", ",", "1", ",", "-", "2",
      ",", "1", "0", ",", "0", ",", "1", ",", "0", ",", "1">>
LeftLandmarksLine ==
    <<"L", "e", "f", "t", " ", "L", "a", "n", "d", "m", "a", "r", "k", "s", ",", "1",
      ",", "2", ",", " ", "3", ",", "4">>
\* a wrist record with an empty field, a field that is no number, and too
\* few numbers
ShortWristLine ==
    <<"R", "i", "g", "h", "t", " ", "W", "r", "i", "s", "t", ",", "1", ",", ",", "x",
      ",", "2">>
\* a wrist record with more numbers than a pose has
LongWristLine ==
    <<"R", "i", "g", "h", "t", " ", "W", "r", "i", "s", "t", ",", "2", ",", "3", ",",
      "4", ",", "0", ",", "0", ",", "1", ",", "1", ",", "9">>
\* a landmarks record with fewer numbers than a row has
ShortLandmarksLine ==
    <<"L", "e", "f", "t", " ", "L", "a", "n", "d", "m", "a", "r", "k", "s", ",", "5",
      ",", "6">>
\* a label with no side, labels of no kind, an empty line, "\r" and "\r\n"
OtherLines ==
    <<"W", "r", "i", "s", "t", ",", "1", LF, "a", LF, LF, "b", CR, "c", CR, LF>>
\* a two-byte character, and a byte that is not UTF-8
NonAscii == <<"x", "C3", "A9", LF, "FF", LF>>
\* the start of a record, sent without the rest
Unfinished == <<"R", "i", "g", "h", "t", " ", "W">>

\* what one send of the peer holds, on a connection and as a datagram
Messages ==
    IF protocol = "tcp"
    THEN {RightWristLine \o <<LF>>, LeftLandmarksLine \o <<LF>>,
          ShortWristLine \o <<LF>>, LongWristLine \o <<LF>>,
          ShortLandmarksLine \o <<LF>>, OtherLines, NonAscii, Unfinished}
    ELSE {RightWristLine, ShortWristLine \o <<LF>> \o LeftLandmarksLine \o <<LF>>,
          LongWristLine, ShortLandmarksLine, OtherLines, RightWristLine \o <<LF, "FF">>,
          SubSeq(NonAscii, 1, 3)}

RECURSIVE Concat(_)
Concat(seqs) == IF seqs = <<>> THEN <<>> ELSE Head(seqs) \o Concat(Tail(seqs))

\* What the loop will be given to read: on a connection the bytes of up to
\* MaxMessages sends, in one stream; otherwise up to MaxMessages datagrams.
Wires ==
    LET sends == UNION {[1..n -> Messages] : n \in 0..MaxMessages}
    IN IF protocol = "tcp" THEN {Concat(s) : s \in sends} ELSE sends

threadVars == <<cfgVars, recvVars, wr, mainVars, poseVars, parseVars, calcVars>>

FrameInit ==
    /\ Constructed
    /\ show_fingers = FALSE
    /\ budget = 0
    /\ fpc = "loop"
    /\ f_end = NoError
    /\ wire \in Wires
    /\ ParseOff
    /\ CalcOff
    /\ data = <<>>
    /\ buffer = <<>>
    /\ pending = <<>>
    /\ handled = <<>>
    /\ decoded = <<>>
    /\ dropped = 0

\* ------------------------------------------------------- the read loop

\* while not self._stop.is_set(): and, when it is set, the end of the loop
\* (finally: sock.close() / the end of "with conn:")
FrameLoopCheck ==
    /\ fpc = "loop"
    /\ IF stop_flag THEN /\ fpc' = "ended"
                         /\ f_end' = "stop"
       ELSE /\ fpc' = "wait"
            /\ UNCHANGED f_end
    /\ UNCHANGED <<threadVars, stop_flag, hands, wire, data, buffer, pending, handled,
                   decoded, dropped>>

\* self._handle_line(line), called from a read loop that goes on at "back":
\* an exception it raised would leave the loop
CallHandleLine(line, back) ==
    LET r == HandleLine(hands, line)
    IN /\ handled' = Append(handled, line)
       /\ IF IsRaise(r) THEN /\ fpc' = "ended"
                             /\ f_end' = r.raise
                             /\ UNCHANGED hands
          ELSE /\ hands' = r.return
               /\ fpc' = back
               /\ UNCHANGED f_end

\* FrameUdpRecv with a receiver that hands on only the lines a line break
\* has ended: the rest of the datagram is left out
FrameUdpRecvTerminatedOnly ==
    /\ protocol = "udp"
    /\ fpc = "wait"
    /\ \/ /\ fpc' = "loop"
          /\ UNCHANGED <<f_end, wire, data, pending, decoded, dropped>>
       \/ /\ fpc' = "ended"
          /\ f_end' = "OSError"
          /\ UNCHANGED <<wire, data, pending, decoded, dropped>>
       \/ /\ wire # <<>>
          /\ data' = Head(wire)
          /\ wire' = Tail(wire)
          /\ IF IsRaise(Decode(data'))
             THEN /\ fpc' = "loop"
                  /\ dropped' = dropped + 1
                  /\ UNCHANGED <<pending, decoded>>
             ELSE /\ LET message == Decode(data').return
                         lines == SplitLines(message)
                     IN pending' = IF message # <<>> /\ message[Len(message)] \notin {LF, CR}
                                   THEN SubSeq(lines, 1, Len(lines) - 1) ELSE lines
                  /\ decoded' = Append(decoded, Decode(data').return)
                  /\ fpc' = "lines"
                  /\ UNCHANGED dropped
          /\ UNCHANGED f_end
    /\ UNCHANGED <<threadVars, stop_flag, hands, buffer, handled>>

\* _run_udp: data, _addr = sock.recvfrom(65536) and message = data.decode().
\* decoded keeps the messages that decoded, one entry for each datagram.
FrameUdpRecv ==
    /\ protocol = "udp"
    /\ fpc = "wait"
    /\ \/ /\ fpc' = "loop"                       \* socket.timeout: continue
          /\ UNCHANGED <<f_end, wire, data, pending, decoded, dropped>>
       \/ /\ fpc' = "ended"                      \* OSError: break
          /\ f_end' = "OSError"
          /\ UNCHANGED <<wire, data, pending, decoded, dropped>>
       \/ /\ wire # <<>>
          /\ data' = Head(wire)
          /\ wire' = Tail(wire)
          /\ IF IsRaise(Decode(data'))
             THEN /\ fpc' = "loop"               \* UnicodeDecodeError: continue
                  /\ dropped' = dropped + 1
                  /\ UNCHANGED <<pending, decoded>>
             ELSE /\ pending' = SplitLines(Decode(data').return)
                  /\ decoded' = Append(decoded, Decode(data').return)
                  /\ fpc' = "lines"
                  /\ UNCHANGED dropped
          /\ UNCHANGED f_end
    /\ UNCHANGED <<threadVars, stop_flag, hands, buffer, handled>>

\* _run_udp: for line in message.splitlines(): if line: self._handle_line(line)
FrameUdpLines ==
    /\ fpc = "lines"
    /\ IF pending = <<>>
       THEN /\ fpc' = "loop"
            /\ UNCHANGED <<pending, handled, hands, f_end>>
       ELSE /\ pending' = Tail(pending)
            /\ IF Head(pending) # <<>>
               THEN CallHandleLine(Head(pending), "lines")
               ELSE UNCHANGED <<fpc, handled, hands, f_end>>
    /\ UNCHANGED <<threadVars, stop_flag, wire, data, buffer, decoded, dropped>>

\* FrameTcpRecv with a decode failure that empties the buffer
FrameTcpRecvResetting ==
    /\ protocol = "tcp"
    /\ fpc = "wait"
    /\ \E k \in 1..Len(wire) :
          /\ k <= MaxChunk
          /\ data' = SubSeq(wire, 1, k)
          /\ wire' = Drop(wire, k)
          /\ IF IsRaise(Decode(data'))
             THEN /\ fpc' = "loop"
                  /\ dropped' = dropped + 1
                  /\ buffer' = <<>>
                  /\ UNCHANGED decoded
             ELSE /\ buffer' = buffer \o Decode(data').return
                  /\ decoded' = decoded \o Decode(data').return
                  /\ fpc' = "split"
                  /\ UNCHANGED dropped
          /\ UNCHANGED f_end
    /\ UNCHANGED <<threadVars, stop_flag, hands, pending, handled>>

\* _handle_tcp_conn: data = conn.recv(4096), which returns any number of the
\* bytes that have arrived (here at most MaxChunk of them) and nothing once
\* the peer has closed, and buffer += data.decode("utf-8")
FrameTcpRecv ==
    /\ protocol = "tcp"
    /\ fpc = "wait"
    /\ \/ /\ fpc' = "loop"                       \* socket.timeout: continue
          /\ UNCHANGED <<f_end, wire, data, buffer, decoded, dropped>>
       \/ /\ fpc' = "ended"                      \* any other OSError is not caught
          /\ f_end' = "OSError"
          /\ UNCHANGED <<wire, data, buffer, decoded, dropped>>
       \/ /\ wire = <<>>                         \* if not data: break
          /\ data' = <<>>
          /\ fpc' = "ended"
          /\ f_end' = "eof"
          /\ UNCHANGED <<wire, buffer, decoded, dropped>>
       \/ \E k \in 1..Len(wire) :
             /\ k <= MaxChunk
             /\ data' = SubSeq(wire, 1, k)
             /\ wire' = Drop(wire, k)
             /\ IF IsRaise(Decode(data'))
                THEN /\ fpc' = "loop"            \* UnicodeDecodeError: continue
                     /\ dropped' = dropped + 1
                     /\ UNCHANGED <<buffer, decoded>>
                ELSE /\ buffer' = buffer \o Decode(data').return
                     /\ decoded' = decoded \o Decode(data').return
                     /\ fpc' = "split"
                     /\ UNCHANGED dropped
             /\ UNCHANGED f_end
    /\ UNCHANGED <<threadVars, stop_flag, hands, pending, handled>>

\* FrameTcpSplit as "if" in the place of "while": one line for each read
FrameTcpSplitOnce ==
    /\ fpc = "split"
    /\ IF LF \in Range(buffer)
       THEN /\ buffer' = Drop(buffer, Find(buffer, LF))
            /\ IF Find(buffer, LF) > 1
               THEN CallHandleLine(SubSeq(buffer, 1, Find(buffer, LF) - 1), "loop")
               ELSE /\ fpc' = "loop"
                    /\ UNCHANGED <<handled, hands, f_end>>
       ELSE /\ fpc' = "loop"
            /\ UNCHANGED <<buffer, handled, hands, f_end>>
    /\ UNCHANGED <<threadVars, stop_flag, wire, data, pending, decoded, dropped>>

\* _handle_tcp_conn: while "\n" in buffer:
\*     line, buffer = buffer.split("\n", 1)
\*     if line: self._handle_line(line)
FrameTcpSplit ==
    /\ fpc = "split"
    /\ IF LF \in Range(buffer)
       THEN /\ buffer' = Drop(buffer, Find(buffer, LF))
            /\ IF Find(buffer, LF) > 1
               THEN CallHandleLine(SubSeq(buffer, 1, Find(buffer, LF) - 1), "split")
               ELSE UNCHANGED <<fpc, handled, hands, f_end>>
       ELSE /\ fpc' = "loop"
            /\ UNCHANGED <<buffer, handled, hands, f_end>>
    /\ UNCHANGED <<threadVars, stop_flag, wire, data, pending, decoded, dropped>>

\* StreamReceiver.stop, called by the main thread: self._stop.set()
FrameStop ==
    /\ ~stop_flag
    /\ fpc # "ended"
    /\ stop_flag' = TRUE
    /\ UNCHANGED <<threadVars, hands, frameVars>>

FrameNext ==
    \/ FrameLoopCheck
    \/ FrameUdpRecv
    \/ FrameUdpLines
    \/ FrameTcpRecv
    \/ FrameTcpSplit
    \/ FrameStop

FrameSpec == FrameInit /\ [][FrameNext]_vars

\* ---------------------------------------------------------------------
\* PoseSpec: the values the consumer computes.  Records are applied to the
\* HandStates (update_wrist and update_landmarks, as _handle_line calls them)
\* and, between two records, the consumer runs ticks of its loop:
\* world_points, wrist_point, _finger_segments and the bounds.  The threads
\* are those of Spec; here the steps of a tick follow one another with no
\* update in between, so that each value is the function of the HandState it
\* was computed from.
\*
\* A number is an integer.  The points world_points returns are written as
\* rows of integers over one denominator den (1 for points it did not
\* rotate); a single point is written [den, v].
\* ---------------------------------------------------------------------

\* np.cross(a, b), k * v and a + b for 3-vectors
Cross(a, b) == <<a[2] * b[3] - a[3] * b[2],
                 a[3] * b[1] - a[1] * b[3],
                 a[1] * b[2] - a[2] * b[1]>>
Scale(k, v) == [i \in Axes |-> k * v[i]]
Plus(a, b) == [i \in Axes |-> a[i] + b[i]]

\* _quat_rotate(points, quat).  With q the integer vector of the normalized
\* quaternion and den = q.q, t is written over the norm of q and the result
\* over den.
QuatRotate(points, quat) ==
    LET q == QuatNormalize(quat)
        q_xyz == SubSeq(q, 1, RowFloats)
        q_w == q[Len(q)]
        den == q[1] * q[1] + q[2] * q[2] + q[3] * q[3] + q[4] * q[4]
        t(p) == Scale(2, Cross(q_xyz, p))
    IN [den |-> den,
        rows |-> [i \in 1..Len(points) |->
                    Plus(Plus(Scale(den, points[i]), Scale(q_w, t(points[i]))),
                         Cross(q_xyz, t(points[i])))]]

\* WorldPoints with the position added before the rotation
WorldPointsTranslatedFirst(hand) ==
    IF hand.landmarks_local = None THEN None
    ELSE IF hand.wrist_position = None \/ hand.wrist_quat = None
         THEN Some([den |-> 1, rows |-> Value(hand.landmarks_local)])
    ELSE Some(QuatRotate([i \in 1..Len(Value(hand.landmarks_local)) |->
                             Plus(Value(hand.landmarks_local)[i],
                                  Value(hand.wrist_position))],
                         Value(hand.wrist_quat)))

\* HandState.world_points
WorldPoints(hand) ==
    IF hand.landmarks_local = None THEN None
    ELSE IF hand.wrist_position = None \/ hand.wrist_quat = None
         THEN Some([den |-> 1, rows |-> Value(hand.landmarks_local)])
    ELSE LET r == QuatRotate(Value(hand.landmarks_local), Value(hand.wrist_quat))
         IN Some([den |-> r.den,
                  rows |-> [i \in 1..Len(r.rows) |->
                              Plus(r.rows[i], Scale(r.den, Value(hand.wrist_position)))]])

\* WristPoint with the basis change applied to the stored position
WristPointReconverted(hand) ==
    IF hand.wrist_position = None THEN None
    ELSE Some(ConvertVec(Value(hand.wrist_position)))

\* HandState.wrist_point
WristPoint(hand) ==
    IF hand.wrist_position = None THEN None
    ELSE hand.wrist_position

\* joints of one finger in _finger_segments
FingerJoints == 4

\* FingerSegments with the joints starting at row 0 whatever the row count
FingerSegmentsFromZero(wrist, landmarks) ==
    LET idx(k) == [den |-> landmarks.den, v |-> landmarks.rows[k + 1]]
    IN IF Len(landmarks.rows) < LastIndex + 1 THEN Raise("IndexError")
       ELSE Return([n \in 1..(LastIndex + 1) |->
                      [start |-> IF (n - 1) % FingerJoints = 0
                                 THEN [den |-> 1, v |-> wrist]
                                 ELSE idx(n - 2),
                       end |-> idx(n - 1)]])

\* _finger_segments(wrist, landmarks): for each of the 5 fingers the segment
\* from the wrist to its first joint and the segments from joint to joint.
\* The joints start at row 1 when there are 21 rows or more and at row 0
\* otherwise; a row that is not there raises IndexError.
FingerSegments(wrist, landmarks) ==
    LET first == IF Len(landmarks.rows) >= WristRows THEN 1 ELSE 0
        idx(k) == [den |-> landmarks.den, v |-> landmarks.rows[k + 1]]
    IN IF Len(landmarks.rows) < first + LastIndex + 1 THEN Raise("IndexError")
       ELSE Return([n \in 1..(LastIndex + 1) |->
                      LET joint == first + n - 1
                      IN [start |-> IF (n - 1) % FingerJoints = 0
                                    THEN [den |-> 1, v |-> wrist]
                                    ELSE idx(joint - 1),
                          end |-> idx(joint)]])

\* points_for_bounds, np.vstack, mins, maxs, center and extent.  The two
\* arrays are written over the product of their denominators, center and
\* extent over twice that.  The padding, the smoothing by alpha and
\* _set_axes_from_bounds work on center and extent coordinate by coordinate.
Bounds(points) ==
    LET den(s) == IF points[s] = None THEN 1 ELSE Value(points[s]).den
        rows(s) == IF points[s] = None THEN <<>> ELSE Value(points[s]).rows
        over(s, o) == [i \in 1..Len(rows(s)) |-> Scale(den(o), rows(s)[i])]
        all_points == over("right", "left") \o over("left", "right")
        mins == [k \in Axes |-> Min({all_points[i][k] : i \in 1..Len(all_points)})]
        maxs == [k \in Axes |-> Max({all_points[i][k] : i \in 1..Len(all_points)})]
    IN IF all_points = <<>> THEN None
       ELSE Some([den |-> 2 * den("right") * den("left"),
                  center |-> Plus(mins, maxs),
                  extent |-> Max({maxs[k] - mins[k] : k \in Axes})])

\* ------------------------------------------- the records that are applied

\* the payload of a landmarks record of n rows
Hand(n) ==
    [k \in 1..(RowFloats * n) |->
        LET i == (k - 1) \div RowFloats + 1
        IN <<i, i % RowFloats, 7 - i>>[((k - 1) % RowFloats) + 1]]

\* Payloads of wrist records: no rotation, a quarter turn, a rotation about
\* a slanted axis followed by one more float, and one that is too short.
WristPayloads ==
    {<<1, 2, 3, 0, 0, 0, 1>>, <<1, -2, 10, 0, 1, 0, 1>>,
     <<2, 3, 4, 1, 2, 0, -1, 9>>, <<5, 5>>}
\* Payloads of landmarks records: hands of 20, of 21 and of 22 rows, one row
\* with a float left over, and one that is too short.
LandmarkPayloads ==
    {Hand(LastIndex + 1), Hand(WristRows), Hand(WristRows + 1), <<1, 2, 3, 4>>, <<5, 6>>}

\* what _parse_line hands to _handle_line
PoseRecords ==
    {[side |-> s, kind |-> "wrist", floats |-> f] : s \in Side, f \in WristPayloads}
      \cup {[side |-> s, kind |-> "landmarks", floats |-> f] :
               s \in Side, f \in LandmarkPayloads}

\* the values of an accepted record as they were sent, before any conversion
Sent(old, r) ==
    IF r.kind = "wrist"
    THEN IF Len(r.floats) < WristFloats THEN old
         ELSE [old EXCEPT !.wrist =
                  Some([position |-> SubSeq(r.floats, 1, RowFloats),
                        quat |-> SubSeq(r.floats, RowFloats + 1, WristFloats)])]
    ELSE IF Len(r.floats) < RowFloats THEN old
         ELSE [old EXCEPT !.landmarks =
                  Some([i \in 1..(Len(r.floats) \div RowFloats) |->
                           SubSeq(r.floats, RowFloats * (i - 1) + 1, RowFloats * i)])]

PoseInit ==
    /\ Constructed
    /\ FrameOff
    /\ ParseOff
    /\ CalcOff
    /\ protocol = "udp"
    /\ show_fingers \in BOOLEAN
    /\ budget = 0

poseFixed == <<cfgVars, frameVars, parseVars, calcVars, stop_flag, rpc, sock, newconn, conn, hpc, conn_threads,
               budget, wr, t_lm, t_quat, snap, examined>>

\* _handle_line after the parse: hand.update_wrist(floats) or
\* hand.update_landmarks(floats), between two ticks of the consumer
PoseUpdate ==
    /\ mpc = "tick"
    /\ nrecs < MaxPoseRecs
    /\ \E r \in PoseRecords :
          /\ hands' = [hands EXCEPT ![r.side] =
                          IF r.kind = "wrist" THEN UpdateWrist(@, r.floats).return
                          ELSE UpdateLandmarks(@, r.floats).return]
          /\ unity' = [unity EXCEPT ![r.side] = Sent(@, r)]
    /\ nrecs' = nrecs + 1
    /\ UNCHANGED <<poseFixed, mpc, mside, pts, wpt, m_error, cached, segments, target>>

\* while plt.fignum_exists(fig.number): if show_right:
PoseTick ==
    /\ mpc = "tick"
    /\ mpc' = "side"
    /\ mside' = FirstSide
    /\ UNCHANGED <<poseFixed, nrecs, hands, unity, pts, wpt, m_error, cached, segments,
                   target>>

\* right_points = receiver.hands["right"].world_points()
\* if right_points is not None: ... cached_right_points = right_points
PoseWorldPoints ==
    /\ mpc = "side"
    /\ pts' = WorldPoints(hands[mside])
    /\ cached' = IF pts' # None THEN [cached EXCEPT ![mside] = pts'] ELSE cached
    /\ mpc' = "points"
    /\ UNCHANGED <<poseFixed, nrecs, hands, unity, mside, wpt, m_error, segments, target>>

\* right_wrist_point = receiver.hands["right"].wrist_point()
PoseWristPoint ==
    /\ mpc = "points"
    /\ wpt' = WristPoint(hands[mside])
    /\ mpc' = "wrist"
    /\ UNCHANGED <<poseFixed, nrecs, hands, unity, mside, pts, m_error, cached, segments,
                   target>>

\* if show_fingers and right_points is not None and right_wrist_point is not
\* None: segments = _finger_segments(right_wrist_point, right_points); an
\* IndexError leaves the loop
PoseFingers ==
    /\ mpc = "wrist"
    /\ IF show_fingers /\ pts # None /\ wpt # None
       THEN LET r == FingerSegments(Value(wpt), Value(pts))
            IN IF IsRaise(r) THEN /\ m_error' = r.raise
                                  /\ mpc' = "ended"
                                  /\ UNCHANGED segments
               ELSE /\ segments' = r.return
                    /\ mpc' = "drawn"
                    /\ UNCHANGED m_error
       ELSE /\ mpc' = "drawn"
            /\ UNCHANGED <<segments, m_error>>
    /\ UNCHANGED <<poseFixed, nrecs, hands, unity, mside, pts, wpt, cached, target>>

\* the end of the block of one side: if show_left: for the other side, or
\* the bounds
PoseNextSide ==
    /\ mpc = "drawn"
    /\ IF mside = "right" /\ "left" \in show_sides
       THEN /\ mside' = "left"
            /\ mpc' = "side"
       ELSE /\ mside' = NoSide
            /\ mpc' = "bounds"
    /\ pts' = None
    /\ wpt' = None
    /\ segments' = <<>>
    /\ UNCHANGED <<poseFixed, nrecs, hands, unity, m_error, cached, target>>

\* points_for_bounds ... center and extent, and the end of the tick
PoseBounds ==
    /\ mpc = "bounds"
    /\ target' = Bounds(cached)
    /\ mpc' = "tick"
    /\ UNCHANGED <<poseFixed, nrecs, hands, unity, mside, pts, wpt, m_error, cached,
                   segments>>

PoseNext ==
    \/ PoseUpdate
    \/ PoseTick
    \/ PoseWorldPoints
    \/ PoseWristPoint
    \/ PoseFingers
    \/ PoseNextSide
    \/ PoseBounds

PoseSpec == PoseInit /\ [][PoseNext]_vars

\* ---------------------------------------------------------------------
\* ParseSpec: one call of _handle_line on a line put together from a label
\* and up to MaxFields fields: the call of _parse_line, then the update it
\* leads to.
\* ---------------------------------------------------------------------

\* str.join: the parts with sep between them
RECURSIVE Join(_, _)
Join(parts, sep) ==
    IF parts = <<>> THEN <<>>
    ELSE IF Len(parts) = 1 THEN parts[1]
    ELSE parts[1] \o <<sep>> \o Join(Tail(parts), sep)

\* Labels: blanks or none around it; no side, "Right", "left", both; no
\* kind, "Wrist", "landmarks", both.
Capital(w) == [i \in 1..Len(w) |->
                  IF i > 1 THEN w[i]
                  ELSE CASE w[i] = "r" -> "R" [] w[i] = "w" -> "W" [] w[i] = "l" -> "L"
                         [] OTHER -> w[i]]
Labels ==
    LET pads == {<<>>, <<" ">>}
        sides == {<<>>, Capital(Word.right), Word.left, Word.left \o Capital(Word.right)}
        kinds == {<<>>, Capital(Word.wrist), Word.landmarks,
                  Capital(Word.wrist) \o <<" ">> \o Word.landmarks}
    IN {pad \o side \o <<" ">> \o kind \o pad : pad \in pads, side \in sides, kind \in kinds}

\* Fields: numbers, a number between blanks, an empty field, a sign with no
\* digit, and words
Fields ==
    {<<"1">>, <<"-", "2">>, <<" ", "0", "4", " ">>, <<>>, <<"-">>,
     Word.left \o <<" ">> \o Word.wrist}

ParseLines ==
    {Join(<<label>> \o fields, ",") :
        label \in Labels, fields \in UNION {[1..n -> Fields] : n \in 0..MaxFields}}

ParseInit ==
    /\ Constructed
    /\ FrameOff
    /\ protocol = "udp"
    /\ show_fingers = FALSE
    /\ budget = 0
    /\ ppc = "call"
    /\ pline \in ParseLines
    /\ presult = None
    /\ CalcOff

parseFixed == <<cfgVars, frameVars, poseVars, calcVars, stop_flag, recvVars, wr, mainVars>>

\* _handle_line: parsed = _parse_line(line)
ParseCall ==
    /\ ppc = "call"
    /\ presult' = ParseLine(pline)
    /\ ppc' = "parsed"
    /\ UNCHANGED <<parseFixed, hands, pline>>

\* _handle_line: if not parsed: return, and the call of update_wrist or
\* update_landmarks on self.hands[side]
ParseDispatch ==
    /\ ppc = "parsed"
    /\ IF presult = None THEN UNCHANGED hands
       ELSE hands' = [hands EXCEPT ![Value(presult).side] =
                         IF Value(presult).kind = "wrist"
                         THEN UpdateWrist(@, Value(presult).floats).return
                         ELSE UpdateLandmarks(@, Value(presult).floats).return]
    /\ ppc' = "done"
    /\ UNCHANGED <<parseFixed, pline, presult>>

ParseNext ==
    \/ ParseCall
    \/ ParseDispatch

ParseSpec == ParseInit /\ [][ParseNext]_vars

\* ---------------------------------------------------------------------
\* PipeSpec: one read loop as in FrameSpec, from the bytes to the store,
\* together with the consumer's tick as in PoseSpec.  The peer sends a wrist
\* record and then a landmarks record for the right hand.  The two threads
\* interleave freely.
\* ---------------------------------------------------------------------

\* a wrist record at the origin with no rotation, and two landmark rows
IdentityWristLine ==
    <<"R", "i", "g", "h", "t", " ", "W", "r", "i", "s", "t", ",", "0", ",", "0", ",",
      "0", ",", "0", ",", "0", ",", "0", ",", "1">>
TwoRowsLine ==
    <<"R", "i", "g", "h", "t", " ", "L", "a", "n", "d", "m", "a", "r", "k", "s", ",",
      "1", ",", "0", ",", "0", ",", "0", ",", "1", ",", "0">>

\* the two records as the bytes of one connection, as two datagrams, and as
\* one datagram of two lines
PipeWires ==
    IF protocol = "tcp"
    THEN {IdentityWristLine \o <<LF>> \o TwoRowsLine \o <<LF>>}
    ELSE {<<IdentityWristLine, TwoRowsLine>>,
          <<IdentityWristLine \o <<LF>> \o TwoRowsLine \o <<LF>>>>}

PipeInit ==
    /\ Constructed
    /\ ParseOff
    /\ CalcOff
    /\ show_fingers = FALSE
    /\ budget = 0
    /\ fpc = "loop"
    /\ f_end = NoError
    /\ wire \in PipeWires
    /\ data = <<>>
    /\ buffer = <<>>
    /\ pending = <<>>
    /\ handled = <<>>
    /\ decoded = <<>>
    /\ dropped = 0

PipeNext ==
    \/ FrameLoopCheck
    \/ FrameUdpRecv
    \/ FrameUdpLines
    \/ FrameTcpRecv
    \/ FrameTcpSplit
    \/ FrameStop
    \/ PoseTick
    \/ PoseWorldPoints
    \/ PoseWristPoint
    \/ PoseFingers
    \/ PoseNextSide
    \/ PoseBounds

PipeSpec == PipeInit /\ [][PipeNext]_vars

\* ---------------------------------------------------------------------
\* QuatSpec: one call of _convert_quat, as update_wrist makes it, on a
\* quaternion with components from -MaxComponent to MaxComponent:
\* _quat_to_matrix, the change of basis, and _matrix_to_quat.
\* ---------------------------------------------------------------------

Components == (0 - MaxComponent)..MaxComponent

QuatInit ==
    /\ Constructed
    /\ FrameOff
    /\ ParseOff
    /\ SmoothOff
    /\ protocol = "udp"
    /\ show_fingers = FALSE
    /\ budget = 0
    /\ qpc = "call"
    /\ q_arg \in [1..(WristFloats - RowFloats) -> Components]
    /\ q_mat = None
    /\ q_ret = None

quatFixed == <<cfgVars, frameVars, poseVars, parseVars, smoothVars, stop_flag, recvVars,
               storeVars, mainVars>>

\* r_unity = _quat_to_matrix(quat); r_rh = _UNITY_TO_RH @ r_unity @ _UNITY_TO_RH.T
QuatBasisChange ==
    /\ qpc = "call"
    /\ LET r_unity == QuatToMatrix(q_arg)
       IN q_mat' = Some([den |-> r_unity.den,
                         m |-> MatMul(MatMul(UNITY_TO_RH, r_unity.m),
                                      Transpose(UNITY_TO_RH))])
    /\ qpc' = "matrix"
    /\ UNCHANGED <<quatFixed, q_arg, q_ret>>

\* return _matrix_to_quat(r_rh)
QuatFromMatrix ==
    /\ qpc = "matrix"
    /\ q_ret' = Some(MatrixToQuat(Value(q_mat)))
    /\ qpc' = "done"
    /\ UNCHANGED <<quatFixed, q_arg, q_mat>>

QuatNext ==
    \/ QuatBasisChange
    \/ QuatFromMatrix

QuatSpec == QuatInit /\ [][QuatNext]_vars

\* ---------------------------------------------------------------------
\* SmoothSpec: the bounds of the consumer loop over MaxTicks ticks.  In a
\* tick world_points returns points for a side or None, the cached points of
\* the side follow, and the bounds are computed from the cached points and
\* smoothed.
\*
\* Numbers are exact: a scalar is written [n, d] in lowest terms, a vector
\* [den, v] in lowest terms.  The floating-point arithmetic of the code
\* rounds each result to the nearest double.
\* ---------------------------------------------------------------------

Ratio(n, d) == LET g == Gcd(Abs(n), d) IN [n |-> n \div g, d |-> d \div g]
RPlus(a, b) == Ratio(a.n * b.d + b.n * a.d, a.d * b.d)
RTimes(a, b) == Ratio(a.n * b.n, a.d * b.d)
RLess(a, b) == a.n * b.d < b.n * a.d
\* max(a, b)
RMax(a, b) == IF RLess(a, b) THEN b ELSE a
\* v / den in lowest terms
Vector(den, v) ==
    LET g == Gcd(Gcd(den, Abs(v[1])), Gcd(Abs(v[2]), Abs(v[3])))
    IN [den |-> den \div g, v |-> [k \in Axes |-> IF v[k] < 0 THEN 0 - (Abs(v[k]) \div g)
                                                  ELSE v[k] \div g]]

\* padding = max(extent * 0.3, 0.02)
Padding(extent) == RMax(RTimes(extent, Ratio(3, 10)), Ratio(2, 100))

\* TargetLimit without the floor of 0.05
TargetLimitNoFloor(extent) == RPlus(extent, Padding(extent))

\* target_limit = max(extent + padding, 0.05)
TargetLimit(extent) == RMax(RPlus(extent, Padding(extent)), Ratio(5, 100))

\* (1.0 - alpha) * ema + alpha * new, for scalars and for vectors
Blend(ema, new) ==
    RPlus(RTimes(Ratio(alpha.d - alpha.n, alpha.d), ema), RTimes(alpha, new))
BlendVector(ema, new) ==
    Vector(alpha.d * ema.den * new.den,
           [k \in Axes |-> (alpha.d - alpha.n) * new.den * ema.v[k]
                              + alpha.n * ema.den * new.v[k]])

\* values of --alpha: the default, a half, 1, and one above 1, which main
\* accepts as well
Alphas == {AlphaDefault, Ratio(1, 2), Ratio(1, 1), Ratio(3, 2)}

\* Arrays world_points returns: two points one unit apart, a single point,
\* and two points 0.08 apart.
PointArrays ==
    {[den |-> 1, rows |-> << <<0, 0, 0>>, <<1, 0, 0>> >>],
     [den |-> 1, rows |-> << <<2, -1, 3>> >>],
     [den |-> 50, rows |-> << <<0, 0, 0>>, <<2, 4, 0>> >>]}

SmoothInit ==
    /\ Constructed
    /\ FrameOff
    /\ ParseOff
    /\ QuatOff
    /\ protocol = "udp"
    /\ show_fingers = FALSE
    /\ budget = 0
    /\ alpha \in Alphas
    /\ ema_center = None
    /\ ema_limit = AxisLimitDefault
    /\ nticks = 0
    /\ last_points = None

smoothFixed == <<cfgVars, frameVars, parseVars, quatVars, stop_flag, recvVars, storeVars,
                 mainVars, unity, segments>>

\* right_points = receiver.hands["right"].world_points()
\* if right_points is not None: ... cached_right_points = right_points
\* (and the same for the left side), for points that are not None
SmoothRead ==
    /\ nticks < MaxTicks
    /\ \E s \in Side, points \in PointArrays : cached' = [cached EXCEPT ![s] = Some(points)]
    /\ UNCHANGED <<smoothFixed, smoothVars, target>>

\* SmoothBounds with a first tick that blends the initial ema_limit with
\* the target as every later tick does
SmoothBoundsBlendingFirst ==
    /\ nticks < MaxTicks
    /\ nticks' = nticks + 1
    /\ last_points' = Some(cached)
    /\ target' = Bounds(cached)
    /\ IF target' = None THEN UNCHANGED <<ema_center, ema_limit>>
       ELSE LET center == Vector(Value(target').den, Value(target').center)
                extent == Ratio(Value(target').extent, Value(target').den)
                target_limit == TargetLimit(extent)
            IN /\ ema_center' = IF ema_center = None THEN Some(center)
                                ELSE Some(BlendVector(Value(ema_center), center))
               /\ ema_limit' = Blend(ema_limit, target_limit)
    /\ UNCHANGED <<smoothFixed, alpha, cached>>

\* SmoothBounds with a tick without points that smooths the half-extent
\* toward that of an empty window
SmoothBoundsShrinking ==
    /\ nticks < MaxTicks
    /\ nticks' = nticks + 1
    /\ last_points' = Some(cached)
    /\ target' = Bounds(cached)
    /\ IF target' = None THEN /\ UNCHANGED ema_center
                              /\ ema_limit' = Blend(ema_limit, TargetLimit(Ratio(0, 1)))
       ELSE LET center == Vector(Value(target').den, Value(target').center)
                extent == Ratio(Value(target').extent, Value(target').den)
                target_limit == TargetLimit(extent)
            IN IF ema_center = None
               THEN /\ ema_center' = Some(center)
                    /\ ema_limit' = target_limit
               ELSE /\ ema_center' = Some(BlendVector(Value(ema_center), center))
                    /\ ema_limit' = Blend(ema_limit, target_limit)
    /\ UNCHANGED <<smoothFixed, alpha, cached>>

\* points_for_bounds = [] ... _set_axes_from_bounds(ax, ema_center, ema_limit):
\* the bounds of one tick.  last_points keeps the cached points the tick saw.
SmoothBounds ==
    /\ nticks < MaxTicks
    /\ nticks' = nticks + 1
    /\ last_points' = Some(cached)
    /\ target' = Bounds(cached)
    /\ IF target' = None THEN UNCHANGED <<ema_center, ema_limit>>   \* if points_for_bounds:
       ELSE LET center == Vector(Value(target').den, Value(target').center)
                extent == Ratio(Value(target').extent, Value(target').den)
                target_limit == TargetLimit(extent)
            IN IF ema_center = None
               THEN /\ ema_center' = Some(center)
                    /\ ema_limit' = target_limit
               ELSE /\ ema_center' = Some(BlendVector(Value(ema_center), center))
                    /\ ema_limit' = Blend(ema_limit, target_limit)
    /\ UNCHANGED <<smoothFixed, alpha, cached>>

SmoothNext ==
    \/ SmoothRead
    \/ SmoothBounds

SmoothSpec == SmoothInit /\ [][SmoothNext]_vars

\* ---------------------------------------------------------------------
\* CarrySpec: the connections of one receiver, one after the other.  Each
\* connection is read by its own call of _handle_tcp_conn, as in FrameSpec;
\* the variables of the read loop describe the connection being read:
\* decoded starts again with each connection, handled goes on over all of
\* them, and f_end keeps what ended the connection before.
\* ---------------------------------------------------------------------

\* what a peer sends on one connection before it closes: the start of a
\* record; the rest of that record; a record followed by the start of
\* another; a whole record; nothing
CarryWires ==
    {Unfinished,
     Drop(RightWristLine, Len(Unfinished)) \o <<LF>>,
     LeftLandmarksLine \o <<LF>> \o Unfinished,
     RightWristLine \o <<LF>>,
     <<>>}

CarryInit ==
    /\ Constructed
    /\ protocol = "tcp"
    /\ show_fingers = FALSE
    /\ budget = 0
    /\ fpc = "accept"
    /\ f_end = NoError
    /\ wire = <<>>
    /\ ParseOff
    /\ CalcOff
    /\ data = <<>>
    /\ buffer = <<>>
    /\ pending = <<>>
    /\ handled = <<>>
    /\ decoded = <<>>
    /\ dropped = 0

\* FrameTcpConn with a buffer that outlives the connection
FrameTcpConnKeepingBuffer ==
    /\ fpc \in {"accept", "ended"}
    /\ Len(conn_threads) < MaxConns
    /\ conn_threads' = Append(conn_threads, Len(conn_threads) + 1)
    /\ wire' \in CarryWires
    /\ data' = <<>>
    /\ decoded' = <<>>
    /\ fpc' = "loop"
    /\ UNCHANGED <<cfgVars, rpc, sock, newconn, conn, hpc, nrecs, budget, wr, mainVars,
                   poseVars, parseVars, calcVars, stop_flag, hands, buffer, pending, dropped,
                   handled, f_end>>

\* _run_tcp: conn, addr = server_sock.accept(), the thread of the connection
\* appended to self._conn_threads and started, and the start of
\* _handle_tcp_conn: buffer = ""
FrameTcpConn ==
    /\ fpc \in {"accept", "ended"}
    /\ Len(conn_threads) < MaxConns
    /\ conn_threads' = Append(conn_threads, Len(conn_threads) + 1)
    /\ wire' \in CarryWires
    /\ data' = <<>>
    /\ buffer' = <<>>
    /\ decoded' = <<>>
    /\ fpc' = "loop"
    /\ UNCHANGED <<cfgVars, rpc, sock, newconn, conn, hpc, nrecs, budget, wr, mainVars,
                   poseVars, parseVars, calcVars, stop_flag, hands, pending, dropped,
                   handled, f_end>>

CarryNext ==
    \/ FrameTcpConn
    \/ FrameLoopCheck
    \/ FrameTcpRecv
    \/ FrameTcpSplit
    \/ FrameStop

CarrySpec == CarryInit /\ [][CarryNext]_vars

\* ---------------------------------------------------------------------
\* TallySpec: run_tcp of interarrival.py, the tool that times the records
\* of a stream.  It accepts one connection after the other and reads each
\* with _iter_lines_from_tcp, counting the lines it returns.  wire, data and
\* buffer are those of the connection being read, pending is lines, nrecs
\* the number of calls of stats.add, newconn the number of the connection.
\* The variables of the visualizer stay as constructed.
\* ---------------------------------------------------------------------

\* what a peer sends on one connection before it closes
TallyWires ==
    {<<>>, <<LF>>, <<LF, "a", LF>>, <<"a", LF, "b">>, <<"a", "FF", "b", LF>>,
     Unfinished, RightWristLine \o <<LF>>}

TallyInit ==
    /\ Constructed
    /\ protocol = "tcp"
    /\ show_fingers = FALSE
    /\ budget = 0
    /\ fpc = "accept"
    /\ f_end = NoError
    /\ wire = <<>>
    /\ ParseOff
    /\ CalcOff
    /\ data = <<>>
    /\ buffer = <<>>
    /\ pending = <<>>
    /\ handled = <<>>
    /\ decoded = <<>>
    /\ dropped = 0

\* while "\n" in buffer: line, buffer = buffer.split("\n", 1);
\* if line: lines.append(line)
RECURSIVE TakeLines(_)
TakeLines(text) ==
    IF Find(text, LF) = 0 THEN [lines |-> <<>>, buffer |-> text]
    ELSE LET line == SubSeq(text, 1, Find(text, LF) - 1)
             rest == TakeLines(Drop(text, Find(text, LF)))
         IN [lines |-> (IF line # <<>> THEN <<line>> ELSE <<>>) \o rest.lines,
             buffer |-> rest.buffer]

\* _iter_lines_from_tcp(conn, buffer) once conn.recv(4096) has returned
\* bytes: the lines and the new buffer
IterLinesFromTcp(bytes, text) ==
    IF bytes = <<>> THEN [lines |-> <<>>, buffer |-> text]
    ELSE IF IsRaise(Decode(bytes)) THEN [lines |-> <<>>, buffer |-> text]
    ELSE TakeLines(text \o Decode(bytes).return)

\* run_tcp: conn, addr = server_sock.accept(), conn.settimeout(0.5) and
\* buffer = "".  A timeout of accept leaves everything as it is.
TallyAccept ==
    /\ \/ fpc = "accept"
       \/ fpc = "ended" /\ f_end = "break"
    /\ newconn < MaxConns
    /\ newconn' = newconn + 1
    /\ wire' \in TallyWires
    /\ data' = <<>>
    /\ buffer' = <<>>
    /\ pending' = <<>>
    /\ f_end' = NoError
    /\ fpc' = "read"
    /\ UNCHANGED <<cfgVars, rpc, sock, conn, hpc, conn_threads, nrecs, budget, storeVars,
                   mainVars, poseVars, parseVars, calcVars, stop_flag, handled, decoded,
                   dropped>>

\* one pass of the per-connection loop once conn.recv has returned what it
\* read: lines, buffer = _iter_lines_from_tcp(conn, buffer); "if not lines
\* and not buffer: break", which leaves "with conn:" for the next accept;
\* otherwise stats.add for each line
TallyPass(bytes) ==
    LET r == IterLinesFromTcp(bytes, buffer)
    IN /\ data' = bytes
       /\ pending' = r.lines
       /\ buffer' = r.buffer
       /\ IF r.lines = <<>> /\ r.buffer = <<>>
          THEN /\ fpc' = "ended"
               /\ f_end' = "break"
               /\ UNCHANGED <<nrecs, handled>>
          ELSE /\ nrecs' = nrecs + Len(r.lines)
               /\ handled' = handled \o r.lines
               /\ UNCHANGED <<fpc, f_end>>

\* run_tcp: the body of the inner "while True:".  conn.recv(4096) times out,
\* fails, returns nothing once the peer has closed, or returns some of the
\* bytes that have arrived.
TallyRead ==
    /\ fpc = "read"
    /\ \/ UNCHANGED <<fpc, f_end, wire, data, buffer, pending, nrecs, handled>>
                                                 \* socket.timeout: continue
       \/ /\ fpc' = "ended"                      \* any other OSError is not caught
          /\ f_end' = "OSError"
          /\ UNCHANGED <<wire, data, buffer, pending, nrecs, handled>>
       \/ /\ wire = <<>>
          /\ TallyPass(<<>>)
          /\ UNCHANGED wire
       \/ \E k \in 1..Len(wire) :
             /\ k <= MaxChunk
             /\ wire' = Drop(wire, k)
             /\ TallyPass(SubSeq(wire, 1, k))
    /\ UNCHANGED <<cfgVars, rpc, sock, newconn, conn, hpc, conn_threads, budget, storeVars,
                   mainVars, poseVars, parseVars, calcVars, stop_flag, decoded, dropped>>

TallyNext ==
    \/ TallyAccept
    \/ TallyRead

TallySpec == TallyInit /\ [][TallyNext]_vars

\* ===================================================================
\* Claims checked under Spec
\* ===================================================================

Updating(t, s) == wr[t].step # "idle" /\ wr[t].rec.side = s
Started(c) == hpc[c] \in {"loop", "wait", "handle", "done"} \cup Leaving
ConsumerPcs == {"tick", "wp_landmarks", "wp_position", "wp_quat", "wp_local",
                "wp_load_lm", "wp_load_quat", "wp_load_pos", "wrist_check",
                "wrist_load", "fingers"}

\* C1: the pose is read as a unit: the position and the orientation that
\* world_points applies come from the same wrist record.  (Stated as claimed;
\* the code violates it.)
C1_PoseReadAsUnit ==
    pts # None => Value(pts).pos = Value(pts).quat

\* C2: at every moment at most one thread is executing an update on a given
\* side's HandState.  (Stated as claimed; the code violates it.)
C2_OneWriterPerSide ==
    \A s \in Side : Cardinality({t \in Writers : Updating(t, s)}) <= 1

\* C3: every read of world_points / wrist_point completes without failing, and
\* the points it returns are built from one complete stored landmarks array:
\* row i of the array is row i of one and the same landmarks record, and no
\* row of that record is missing.
C3_ReadsSafe ==
    /\ m_error # "TypeError"
    /\ pts # None =>
         LET lm == Value(Value(pts).lm)
         IN /\ Len(lm) >= 1
            /\ \A i \in 1..Len(lm) :
                 /\ lm[i].rec = lm[1].rec
                 /\ lm[i].row = i
                 /\ lm[i].of = Len(lm)

\* a read of world_points has returned posed points while a thread was in the
\* middle of an update of the same side
C3_Witness ==
    /\ pts # None
    /\ Value(pts).pos # None
    /\ \E t \in Writers : Updating(t, mside) /\ wr[t].step \in {"quat", "stamp"}

\* C4: the consumer never waits on the receiver: whenever the main thread is
\* in its loop, its next step is enabled, whatever the other threads are doing.
C4_ConsumerNeverWaits ==
    mpc \in ConsumerPcs => ENABLED Consumer

\* the consumer is about to load the stored landmarks while a thread is in the
\* middle of an update of that side
C4_Witness ==
    /\ mpc = "wp_load_lm"
    /\ \E t \in Writers : Updating(t, mside) /\ wr[t].step \in {"pos", "quat", "lm"}

\* C6: when stop() has returned, every handler thread that the accept loop has
\* started has been waited on: stop() joined it, or found it ended.  (Stated as
\* claimed; the code violates it.)
C6_StartedThreadsJoined ==
    mpc = "stopped" =>
        \A c \in Conns : Started(c) => examined[c] \in {"joined", "ended"}

\* C10: a failed bind is fatal: once the receiver thread has died in bind, the
\* consumer loop starts no further tick.  (Stated as claimed; the code violates
\* it.)
C10_BindFailureFatal ==
    [][rpc = "failed" => ~(mpc = "tick" /\ mpc' = "wp_landmarks")]_vars

\* C14: last-writer-wins per side: once the records received for a side have
\* been applied (no update of that side is in progress), the stored pose of
\* the side is the conversion of one wrist record, the most recent one: its
\* position and its orientation were converted from the same record.
\* (Stated as claimed; the code violates it.)
C14_LastWriterWins ==
    \A s \in Side :
        (\A t \in Writers : ~Updating(t, s)) =>
            hands[s].wrist_position = hands[s].wrist_quat

\* ===================================================================
\* Claims checked under FairSpec
\* ===================================================================

\* the receiver thread has left its loop and closed its socket (or never
\* bound it), and every handler thread that exists has ended with its
\* connection closed
Terminated ==
    /\ \/ rpc = "done" /\ sock = "closed"
       \/ rpc = "failed"
    /\ \A c \in Conns : \/ hpc[c] = "none" /\ conn[c] = "none"
                        \/ hpc[c] = "done" /\ conn[c] = "closed"

\* C5: once the stop flag is set, the receiver loop and every per-connection
\* read loop eventually exit, and the listening socket and every connection
\* end closed.
C5_StopTerminates == stop_flag ~> Terminated

\* stop() found a handler thread alive and joined it, and all threads have
\* ended with their sockets closed
C5_Witness ==
    /\ stop_flag
    /\ rpc = "done" /\ sock = "closed"
    /\ \E c \in Conns : examined[c] = "joined" /\ hpc[c] = "done" /\ conn[c] = "closed"

\* a step of the handler thread of connection c that changes nothing but
\* that thread's position and that connection: the accept loop, the list of
\* threads, the other handlers and connections, the updates in progress and
\* the HandStates are as they were
OnlyHandler(c) ==
    /\ UNCHANGED <<rpc, sock, newconn, conn_threads, stop_flag, wr, hands, nrecs, budget>>
    /\ \A d \in Conns \ {c} : hpc'[d] = hpc[d] /\ conn'[d] = conn[d]

\* the handler thread of connection c has ended and the connection is closed
Ended(c) == hpc[c] = "done" /\ conn[c] = "closed"

\* C11: a read error other than a timeout on an established connection
\* terminates only that connection's handler: the step that raises and the
\* step that leaves "with conn:" change nothing of the accept loop, of the
\* other handlers and connections or of the HandStates, and the handler then
\* ends with its connection closed.
C11_ReadErrorEndsOneHandler ==
    /\ [][\A c \in Conns :
            (hpc'[c] # hpc[c] /\ "raised" \in {hpc[c], hpc'[c]}) =>
                /\ OnlyHandler(c)
                /\ hpc[c] = "wait" => hpc'[c] = "raised" /\ conn'[c] = conn[c]
                /\ hpc[c] = "raised" => Ended(c)']_vars
    /\ \A c \in Conns : (hpc[c] = "raised") ~> Ended(c)

\* a read has raised on one connection while stop is not set, the accept loop
\* is running, the handler of another connection is running and a record
\* has been stored
C11_Witness ==
    /\ ~stop_flag
    /\ rpc \in {"loop", "wait"}
    /\ \E s \in Side : hands[s].last_update = "updated"
    /\ \E c, d \in Conns : /\ hpc[c] = "raised"
                            /\ hpc[d] \in {"loop", "wait", "handle"}
                            /\ conn[d] = "open"

\* C12: a zero-length read on a connection is end-of-stream and not an
\* error: the handler leaves its loop by break, raising nothing, then leaves
\* "with conn:", which closes the connection, and ends; both steps leave the
\* accept loop and the other connections as they were.
C12_ZeroReadEndsStream ==
    /\ [][\A c \in Conns :
            (hpc'[c] # hpc[c] /\ "eof" \in {hpc[c], hpc'[c]}) =>
                /\ OnlyHandler(c)
                /\ hpc[c] = "wait" => hpc'[c] = "eof" /\ conn'[c] = "open"
                /\ hpc[c] = "eof" => Ended(c)']_vars
    /\ \A c \in Conns : (hpc[c] = "eof") ~> Ended(c)

\* one connection has read end-of-stream and ended closed while stop is not
\* set, the accept loop is waiting and another connection is open with its
\* handler reading
C12_Witness ==
    /\ ~stop_flag
    /\ rpc = "wait"
    /\ \E c, d \in Conns : /\ hpc[c] = "eof"
                            /\ hpc[d] = "wait"
                            /\ conn[d] = "open"

\* ===================================================================
\* Claims checked under FrameSpec
\* ===================================================================

\* the places of the newlines of a text
Newlines(text) == {i \in 1..Len(text) : text[i] = LF}
\* the segment of the text that the newline at place i terminates
SegmentBefore(text, i) ==
    SubSeq(text, Max({0} \cup {j \in Newlines(text) : j < i}) + 1, i - 1)
NonEmpty(s) == s # <<>>
\* the non-empty segments of the text that a newline terminates, in order
TerminatedSegments(text) ==
    SelectSeq([k \in 1..Cardinality(Newlines(text)) |->
                  SegmentBefore(text, Kth(Newlines(text), k))], NonEmpty)
AfterLastNewline(text) == Drop(text, Max({0} \cup Newlines(text)))
\* the loop is between two reads: no chunk is being taken apart
BetweenReads == fpc \in {"loop", "wait"}
\* the text of the last chunk read
Chunk == Decode(data).return

\* C7: connection framing does not depend on chunk boundaries: between reads,
\* the lines handed to the parser are, in order, exactly the non-empty
\* newline-terminated segments of the concatenation of the chunks that
\* decoded, the carry-over is exactly the text after the last newline, and
\* the carry-over holds no newline.
C7_FramingIgnoresChunks ==
    (protocol = "tcp" /\ BetweenReads) =>
        /\ handled = TerminatedSegments(decoded)
        /\ buffer = AfterLastNewline(decoded)
        /\ LF \notin Range(buffer)

\* the last chunk held the end of one line, a whole line and the start of a
\* third: it began in the middle of a line, held two newlines and left a
\* carry-over
C7_Witness ==
    /\ protocol = "tcp"
    /\ fpc = "loop"
    /\ ~IsRaise(Decode(data))
    /\ Cardinality(Newlines(Chunk)) >= 2
    /\ AfterLastNewline(SubSeq(decoded, 1, Len(decoded) - Len(Chunk))) # <<>>
    /\ buffer # <<>>
    /\ Len(handled) >= 2

\* C8: on a connection, a chunk that fails UTF-8 decoding is dropped whole:
\* the read leaves the carry-over as it was, hands no line to the parser,
\* changes no HandState, and the loop goes on to its next read.
C8_BadChunkDropped ==
    [][(protocol = "tcp" /\ wire' # wire /\ IsRaise(Decode(data'))) =>
          /\ buffer' = buffer
          /\ decoded' = decoded
          /\ handled' = handled
          /\ hands' = hands
          /\ fpc' = "loop"]_vars

\* a chunk has just failed to decode on a connection that had a carry-over
\* and had already stored a record
C8_Witness ==
    /\ protocol = "tcp"
    /\ fpc = "loop"
    /\ IsRaise(Decode(data))
    /\ buffer # <<>>
    /\ handled # <<>>
    /\ \E s \in Side : hands[s].last_update = "updated"

\* a line that stores nothing: _parse_line returns None for it, or its
\* payload is shorter than the minimum of its kind
Rejected(line) ==
    \/ ParseLine(line) = None
    \/ Len(Value(ParseLine(line)).floats) <
          (IF Value(ParseLine(line)).kind = "wrist" THEN WristFloats ELSE RowFloats)

\* C9: no decode error and no malformed record ends the read loop: the loop
\* ends only by stop, end of stream or a socket error; the read of any
\* datagram or chunk and the handling of any line leave it running; a
\* rejected line changes no HandState; and a valid record is applied to its
\* side (and to nothing else) whatever was read before it.
C9_ContentNeverEndsLoop ==
    [][/\ fpc' = "ended" => f_end' \in {"stop", "eof", "OSError"}
       /\ (wire' # wire /\ data' # <<>>) => fpc' # "ended"
       /\ Len(handled') > Len(handled) =>
            LET line == handled'[Len(handled')]
                p == Value(ParseLine(line))
            IN /\ fpc' # "ended"
               /\ IF Rejected(line) THEN hands' = hands
                  ELSE /\ hands'[p.side].last_update = "updated"
                       /\ \A s \in Side \ {p.side} : hands'[s] = hands[s]
                       /\ IF p.kind = "wrist"
                          THEN /\ hands'[p.side].wrist_position =
                                     Some(<<p.floats[3], 0 - p.floats[1], p.floats[2]>>)
                               /\ hands'[p.side].wrist_quat # None
                               /\ hands'[p.side].landmarks_local =
                                     hands[p.side].landmarks_local
                          ELSE /\ Len(Value(hands'[p.side].landmarks_local)) =
                                     Len(p.floats) \div RowFloats
                               /\ hands'[p.side].wrist_position =
                                     hands[p.side].wrist_position
                               /\ hands'[p.side].wrist_quat = hands[p.side].wrist_quat]_vars

\* after a read that did not decode and a line that was rejected, the loop
\* is running and the last line it handled was a valid record, now stored
C9_Witness ==
    /\ dropped >= 1
    /\ fpc # "ended"
    /\ Len(handled) >= 2
    /\ \E i \in 1..(Len(handled) - 1) : Rejected(handled[i])
    /\ ~Rejected(handled[Len(handled)])
    /\ hands[Value(ParseLine(handled[Len(handled)])).side].last_update = "updated"

\* the characters at which message.splitlines() ends a line
LineBreaks == {LF, CR}
\* the non-empty lines of a message, in order: its longest runs of characters
\* that are not line breaks, the run at its end included
OwnLines(message) ==
    LET starts == {i \in 1..Len(message) :
                      /\ message[i] \notin LineBreaks
                      /\ i = 1 \/ message[i - 1] \in LineBreaks}
        end(i) == Min({j \in i..Len(message) :
                          j = Len(message) \/ message[j + 1] \in LineBreaks})
    IN [k \in 1..Cardinality(starts) |->
           SubSeq(message, Kth(starts, k), end(Kth(starts, k)))]

\* C13: packet framing is stateless: between reads, the lines handed to
\* the parser are, datagram after datagram, exactly the non-empty lines of
\* each datagram that decoded (a last line with no trailing newline
\* included), whatever the datagrams before it held, and nothing of a
\* datagram is kept for the next one.
C13_DatagramsFramedAlone ==
    (protocol = "udp" /\ BetweenReads) =>
        /\ handled = Concat([k \in 1..Len(decoded) |-> OwnLines(decoded[k])])
        /\ pending = <<>>
        /\ buffer = <<>>

\* two datagrams have been handled: the first ended in a line with no
\* newline after it, and the second held two lines of its own
C13_Witness ==
    /\ protocol = "udp"
    /\ fpc = "loop"
    /\ Len(decoded) = 2
    /\ decoded[1][Len(decoded[1])] \notin LineBreaks
    /\ Len(OwnLines(decoded[2])) >= 2
    /\ Len(handled) >= 3

\* the line a step has just handed to _handle_line, and what it parsed to
Handling == Len(handled') > Len(handled)
Line == handled'[Len(handled')]
Parsed == Value(ParseLine(Line))

\* C15: update_wrist with fewer than 7 floats is a no-op: position,
\* orientation, landmarks and last_update of both sides keep their values.
\* With 7 or more floats the side's position is the basis change of floats
\* 1..3 and its orientation the conversion of floats 4..7, whatever floats
\* follow them; its landmarks and the other side keep their values.
C15_UpdateWristFirstSeven ==
    [][(Handling /\ ParseLine(Line) # None /\ Parsed.kind = "wrist") =>
          LET f == Parsed.floats
              side == Parsed.side
          IN IF Len(f) < 7 THEN hands' = hands
             ELSE /\ hands'[side] =
                       [wrist_position |-> Some(<<f[3], 0 - f[1], f[2]>>),
                        wrist_quat |-> Some(ConvertQuat(<<f[4], f[5], f[6], f[7]>>)),
                        landmarks_local |-> hands[side].landmarks_local,
                        last_update |-> "updated"]
                  /\ \A s \in Side \ {side} : hands'[s] = hands[s]]_vars

\* a wrist record of 8 floats has been stored, and a wrist record of 2
\* floats for the same side has then been handled and has left it stored
C15_Witness ==
    /\ handled = <<LongWristLine, ShortWristLine>>
    /\ Len(Value(ParseLine(LongWristLine)).floats) > 7
    /\ Len(Value(ParseLine(ShortWristLine)).floats) < 7
    /\ hands["right"].wrist_position = Some(<<4, -2, 3>>)
    /\ hands["right"].wrist_quat # None
    /\ hands["right"].last_update = "updated"

\* the stored landmarks of every side are absent, or one or more rows of
\* 3 numbers each
RowsWhole ==
    \A s \in Side :
        hands[s].landmarks_local # None =>
            /\ Len(Value(hands[s].landmarks_local)) >= 1
            /\ \A i \in 1..Len(Value(hands[s].landmarks_local)) :
                   Len(Value(hands[s].landmarks_local)[i]) = 3

\* C16: in every state the stored landmarks are absent or a whole number of
\* 3-float rows; a landmarks record of n >= 3 floats stores exactly
\* floor(n / 3) rows, row i made of floats 3i-2 .. 3i, so that the last
\* n mod 3 floats are in no row; and a landmarks record of fewer than 3
\* floats changes nothing.
C16_LandmarksWholeRows ==
    /\ []RowsWhole
    /\ [][(Handling /\ ParseLine(Line) # None /\ Parsed.kind = "landmarks") =>
             LET f == Parsed.floats
                 rows == Value(hands'[Parsed.side].landmarks_local)
             IN IF Len(f) < 3 THEN hands' = hands
                ELSE /\ Len(rows) * 3 = Len(f) - (Len(f) % 3)
                     /\ \A i \in 1..Len(rows) :
                            rows[i] = <<f[3 * i], 0 - f[3 * i - 2], f[3 * i - 1]>>]_vars

\* a landmarks record of 4 floats has stored one row, and a landmarks
\* record of 2 floats for the same side has then been handled
C16_Witness ==
    /\ handled = <<LeftLandmarksLine, ShortLandmarksLine>>
    /\ Len(Value(ParseLine(LeftLandmarksLine)).floats) % 3 # 0
    /\ Len(Value(ParseLine(ShortLandmarksLine)).floats) < 3
    /\ hands["left"].landmarks_local = Some(<< <<3, -1, 2>> >>)

\* ===================================================================
\* Claims checked under PoseSpec
\* ===================================================================

\* C17: world_points of a side returns None when no landmarks are stored;
\* the stored local landmarks, unmodified, when landmarks are stored and no
\* pose is; and otherwise, for each local landmark l, R l + p, where R is
\* the rotation matrix of the stored orientation and p the stored position.
C17_WorldPointsCases ==
    mpc = "points" =>
        LET hand == hands[mside]
            local == Value(hand.landmarks_local)
            R == QuatToMatrix(Value(hand.wrist_quat))
        IN IF hand.landmarks_local = None THEN pts = None
           ELSE IF hand.wrist_position = None \/ hand.wrist_quat = None
                THEN pts = Some([den |-> 1, rows |-> local])
           ELSE /\ pts # None
                /\ Value(pts).den = R.den
                /\ Len(Value(pts).rows) = Len(local)
                /\ \A i \in 1..Len(local) :
                       Value(pts).rows[i] =
                           Plus(MatVec(R.m, local[i]),
                                Scale(R.den, Value(hand.wrist_position)))

\* world_points has returned the points of a hand of 20 rows or more whose
\* pose turns (den > 1: the orientation is no multiple of a quarter turn
\* about an axis of the frame) and moves them
C17_Witness ==
    /\ mpc = "points"
    /\ pts # None
    /\ Value(pts).den > 1
    /\ Len(Value(pts).rows) > LastIndex
    /\ hands[mside].wrist_position \notin {None, Some(<<0, 0, 0>>)}

\* the basis change, written out: x' = z, y' = -x, z' = y
Once(v) == <<v[3], 0 - v[1], v[2]>>
\* a / b = c / d for vectors a, c and denominators b, d
SameVec(a, b, c, d) == Scale(d, a) = Scale(b, c)
\* the points of a side in the sender's frame, from the values as they were
\* sent: the landmarks, turned and moved by the pose when one was sent
SentWorld(u) ==
    LET R == QuatToMatrix(Value(u.wrist).quat)
    IN IF u.wrist = None THEN [den |-> 1, rows |-> Value(u.landmarks)]
       ELSE [den |-> R.den,
             rows |-> [i \in 1..Len(Value(u.landmarks)) |->
                         Plus(MatVec(R.m, Value(u.landmarks)[i]),
                              Scale(R.den, Value(u.wrist).position))]]
\* the points the bounds are computed from, each over its denominator
CachedPoints ==
    UNION {{[den |-> Value(cached[s]).den, v |-> Value(cached[s]).rows[i]] :
               i \in 1..Len(Value(cached[s]).rows)} : s \in {t \in Side : cached[t] # None}}

\* C20: every position and orientation read from the wire has the basis
\* change applied exactly once, at ingestion: the stored position and the
\* stored landmarks are the basis change of what was sent and the stored
\* orientation turns the changed frame as the sent one turns the sender's
\* frame.  Nothing downstream changes basis again: the points world_points
\* returns and the point wrist_point returns are the basis change of the
\* sender's points, the ends of the skeleton segments are that wrist point
\* and those points, and the bounds are the smallest and largest
\* coordinates of the cached points.
C20_BasisChangeOnce ==
    /\ \A s \in Side :
          /\ unity[s].wrist = None <=> hands[s].wrist_position = None
          /\ unity[s].wrist = None <=> hands[s].wrist_quat = None
          /\ unity[s].landmarks = None <=> hands[s].landmarks_local = None
          /\ unity[s].wrist # None =>
                /\ Value(hands[s].wrist_position) = Once(Value(unity[s].wrist).position)
                /\ LET stored == QuatToMatrix(Value(hands[s].wrist_quat))
                       sent == QuatToMatrix(Value(unity[s].wrist).quat)
                   IN \A v \in {<<1, 0, 0>>, <<0, 1, 0>>, <<0, 0, 1>>} :
                         SameVec(MatVec(stored.m, Once(v)), stored.den,
                                 Once(MatVec(sent.m, v)), sent.den)
          /\ unity[s].landmarks # None =>
                /\ Len(Value(hands[s].landmarks_local)) = Len(Value(unity[s].landmarks))
                /\ \A i \in 1..Len(Value(unity[s].landmarks)) :
                       Value(hands[s].landmarks_local)[i] = Once(Value(unity[s].landmarks)[i])
    /\ (mpc \in {"points", "wrist", "drawn"} /\ pts # None) =>
          LET sent == SentWorld(unity[mside])
          IN /\ Len(Value(pts).rows) = Len(sent.rows)
             /\ \A i \in 1..Len(sent.rows) :
                    SameVec(Value(pts).rows[i], Value(pts).den, Once(sent.rows[i]), sent.den)
    /\ (mpc \in {"wrist", "drawn"} /\ wpt # None) =>
          Value(wpt) = Once(Value(unity[mside].wrist).position)
    /\ (mpc = "drawn" /\ segments # <<>>) =>
          \A n \in 1..Len(segments) :
              /\ segments[n].end \in
                     {[den |-> Value(pts).den, v |-> Value(pts).rows[i]] :
                         i \in 1..Len(Value(pts).rows)}
              /\ segments[n].start \in
                     {[den |-> 1, v |-> Value(wpt)]} \cup
                     {[den |-> Value(pts).den, v |-> Value(pts).rows[i]] :
                         i \in 1..Len(Value(pts).rows)}
    /\ (mpc = "tick" /\ target # None) =>
          \A k \in Axes :
             LET t == Value(target)
                 \* 2 * coordinate k of a point, over the denominator of the target
                 at(p) == (t.den \div p.den) * p.v[k]
             IN /\ \A p \in CachedPoints : /\ t.center[k] - t.extent <= at(p)
                                            /\ at(p) <= t.center[k] + t.extent
                /\ \E p, q \in CachedPoints : at(p) + at(q) = 2 * t.center[k]

\* a tick has drawn the skeleton of a hand whose pose turns and moves it,
\* after a tick that computed the bounds
C20_Witness ==
    /\ mpc = "drawn"
    /\ segments # <<>>
    /\ Value(pts).den > 1
    /\ Value(wpt) # <<0, 0, 0>>
    /\ target # None

\* ===================================================================
\* Claims checked under ParseSpec
\* ===================================================================

\* the places of the commas of the line, and its fields: field k is what
\* stands between comma k - 1 and comma k (the ends of the line for the
\* first and the last), without the blanks around it
Commas == {i \in 1..Len(pline) : pline[i] = ","}
Field(k) ==
    LET from == IF k = 1 THEN 1 ELSE Kth(Commas, k - 1) + 1
        to == IF k > Cardinality(Commas) THEN Len(pline) ELSE Kth(Commas, k) - 1
        inked == {i \in from..to : pline[i] \notin Whitespace}
    IN IF inked = {} THEN <<>> ELSE SubSeq(pline, Min(inked), Max(inked))
\* the trimmed, lower-cased first field
Label == Lower(Field(1))
Has(w) == Contains(Label, w)
\* the fields after the label that are numbers: a sign or none, then digits
Numeric(k) ==
    LET ds == IF Field(k) # <<>> /\ Field(k)[1] = "-" THEN Tail(Field(k)) ELSE Field(k)
    IN ds # <<>> /\ \A i \in 1..Len(ds) : ds[i] \in Range(Digits)
NumericFields == {k \in 2..(Cardinality(Commas) + 1) : Numeric(k)}
Called == ppc \in {"parsed", "done"}

\* C18: _parse_line classifies a line by its trimmed, lower-cased first
\* field: it returns None exactly when that label contains neither "wrist"
\* nor "landmarks", or neither "right" nor "left"; otherwise the side is
\* right when the label contains "right" (also when it contains "left"),
\* else left, and the kind is wrist when the label contains "wrist", else
\* landmarks.
C18_LabelClassifies ==
    Called =>
        /\ presult = None <=>
              \/ ~Has(Word.wrist) /\ ~Has(Word.landmarks)
              \/ ~Has(Word.right) /\ ~Has(Word.left)
        /\ presult # None =>
              /\ Value(presult).side = IF Has(Word.right) THEN "right" ELSE "left"
              /\ Value(presult).kind = IF Has(Word.wrist) THEN "wrist" ELSE "landmarks"

\* a line whose label has blanks around it, capitals, both sides and both
\* kinds has been parsed
C18_Witness ==
    /\ Called
    /\ pline[1] = " "
    /\ Label # Field(1)
    /\ Has(Word.right) /\ Has(Word.left) /\ Has(Word.wrist) /\ Has(Word.landmarks)
    /\ presult # None

\* C19: the payload of a parsed record is the subsequence, in the order of
\* the line, of the fields after the label that are numbers: an empty field
\* and a field that is no number are skipped and do not reject the line, so
\* that the payload has one float for each numeric field and no other.
C19_PayloadIsNumericFields ==
    (Called /\ presult # None) =>
        /\ Len(Value(presult).floats) = Cardinality(NumericFields)
        /\ \A n \in 1..Cardinality(NumericFields) :
               LET f == Field(Kth(NumericFields, n))
               IN Value(presult).floats[n] =
                      IF f[1] = "-" THEN 0 - Decimal(Tail(f)) ELSE Decimal(f)

\* a wrist line of three fields has been handled: the first is a number, the
\* second is not, the third is a number again; its payload of two floats is
\* below the minimum and the HandStates are as constructed
C19_Witness ==
    /\ ppc = "done"
    /\ presult # None
    /\ Value(presult).kind = "wrist"
    /\ Cardinality(Commas) = 3
    /\ NumericFields = {2, 4}
    /\ Field(3) # <<>>
    /\ Value(presult).floats = <<-2, 4>>
    /\ hands = [s \in Side |-> HandState]

\* ===================================================================
\* Claims checked under PipeSpec
\* ===================================================================

\* C21: end to end, a right wrist record with position (0,0,0) and
\* orientation (0,0,0,1) followed by a right landmarks record with the rows
\* (1,0,0) and (0,1,0), fed through framing, parsing and the store: the
\* stored pose is the world origin with the identity orientation, and once
\* both lines are handled world_points of the right side returns the rows
\* (0,-1,0) and (0,0,1), neither turned nor moved, and wrist_point the
\* origin.
C21_IdentityPoseEndToEnd ==
    /\ [](handled # <<>> =>
            /\ handled[1] = IdentityWristLine
            /\ hands["right"].wrist_position = Some(<<0, 0, 0>>)
            /\ hands["right"].wrist_quat = Some(<<0, 0, 0, 1>>))
    /\ [][(handled = <<IdentityWristLine, TwoRowsLine>> /\ mside = "right") =>
            /\ (mpc = "side" /\ mpc' = "points") =>
                   pts' = Some([den |-> 1, rows |-> << <<0, -1, 0>>, <<0, 0, 1>> >>])
            /\ (mpc = "points" /\ mpc' = "wrist") => wpt' = Some(<<0, 0, 0>>)]_vars

\* the two records came over a connection, in chunks, and a tick that
\* started after the second was stored has read the points and the wrist
C21_Witness ==
    /\ protocol = "tcp"
    /\ handled = <<IdentityWristLine, TwoRowsLine>>
    /\ mpc = "wrist"
    /\ mside = "right"
    /\ pts = Some([den |-> 1, rows |-> << <<0, -1, 0>>, <<0, 0, 1>> >>])
    /\ wpt = Some(<<0, 0, 0>>)

\* ===================================================================
\* Further claims checked under PoseSpec
\* ===================================================================

\* C22: _finger_segments returns exactly 20 segments for every landmark
\* array world_points can return, of any row count from 1 up: the call
\* completes, raising nothing, and the consumer loop keeps running.
\* (Stated as claimed; the code violates it.)
C22_AlwaysTwentySegments ==
    /\ m_error # "IndexError"
    /\ mpc # "ended"
    /\ (mpc = "drawn" /\ show_fingers /\ pts # None /\ wpt # None) => Len(segments) = 20

\* C23: skeleton indexing.  With 21 or more landmark rows the finger bases
\* are rows 1, 5, 9, 13, 17 and with exactly 20 rows they are rows 0, 4, 8,
\* 12, 16 (rows counted from 0); the four segments of each finger are wrist
\* to base, base to base+1, base+1 to base+2 and base+2 to base+3, so that
\* the first of the 20 segments is (wrist point, row 1) for 21 rows and
\* (wrist point, row 0) for 20 rows.
C23_SkeletonIndexing ==
    (mpc = "drawn" /\ segments # <<>>) =>
        LET rows == Value(pts).rows
            row(k) == [den |-> Value(pts).den, v |-> rows[k + 1]]
            wrist == [den |-> 1, v |-> Value(wpt)]
            bases == IF Len(rows) >= 21 THEN <<1, 5, 9, 13, 17>>
                     ELSE <<0, 4, 8, 12, 16>>
        IN /\ Len(rows) >= 20
           /\ Len(segments) = 20
           /\ \A f \in 1..5 :
                 /\ segments[4 * f - 3] = [start |-> wrist, end |-> row(bases[f])]
                 /\ segments[4 * f - 2] = [start |-> row(bases[f]), end |-> row(bases[f] + 1)]
                 /\ segments[4 * f - 1] = [start |-> row(bases[f] + 1), end |-> row(bases[f] + 2)]
                 /\ segments[4 * f] = [start |-> row(bases[f] + 2), end |-> row(bases[f] + 3)]
           /\ segments[1] = [start |-> wrist,
                             end |-> row(IF Len(rows) = 20 THEN 0 ELSE 1)]

\* the skeleton of a hand of more than 21 rows has been computed, with a
\* pose that turns and moves it
C23_Witness ==
    /\ mpc = "drawn"
    /\ Len(segments) = 20
    /\ Len(Value(pts).rows) > 21
    /\ Value(pts).den > 1
    /\ Value(wpt) # <<0, 0, 0>>

\* ===================================================================
\* Claims checked under QuatSpec
\* ===================================================================

\* the diagonal of the matrix _matrix_to_quat is given, its trace (both over
\* the positive denominator of the matrix), and the places of its largest
\* entry
Diagonal == [k \in Axes |-> Value(q_mat).m[k][k]]
Trace == Diagonal[1] + Diagonal[2] + Diagonal[3]
Largest == {k \in Axes : \A j \in Axes : Diagonal[k] >= Diagonal[j]}
\* The branch shows in the result: each branch computes its own component
\* (w in the trace branch, x, y or z in the branch of the first, second or
\* third diagonal entry) as a positive number, and the other three with the
\* signs that follow from it.
TraceBranch == Len(Value(q_ret))
Derived(k) == Value(q_ret)[k] > 0
\* the quaternion returned turns as the matrix given
SameRotation ==
    LET R == QuatToMatrix(Value(q_ret))
    IN \A i, j \in Axes : R.m[i][j] * Value(q_mat).den = Value(q_mat).m[i][j] * R.den

Tick == nticks' = nticks + 1
NoPoints == \A s \in Side : cached[s] = None
\* x = y for scalars and vectors that need not be in lowest terms
SameRatio(a, b) == a.n * b.d = b.n * a.d
SameVector(a, b) == \A k \in Axes : a.v[k] * b.den = b.v[k] * a.den
\* the raw center and the target half-extent of the cached points
RawCenter == Vector(Value(Bounds(cached)).den, Value(Bounds(cached)).center)
RawLimit == TargetLimit(Ratio(Value(Bounds(cached)).extent, Value(Bounds(cached)).den))
Floor == [n |-> 1, d |-> 20]

\* C25: a consumer tick with no points available (no cached points of
\* either side) leaves the smoothed center and half-extent exactly as they
\* were.  Since cached points are never dropped, such ticks are those
\* before the first points were returned.
C25_NoPointsNoUpdate ==
    [][(Tick /\ NoPoints) => /\ ema_center' = ema_center
                             /\ ema_limit' = ema_limit]_vars

\* two ticks have run without points and the smoothed state is the initial
\* one
C25_Witness ==
    /\ nticks = 2
    /\ NoPoints
    /\ last_points = Some(cached)
    /\ ema_center = None
    /\ ema_limit = AxisLimitDefault

\* the two parts of C26 that hold as claimed: the first tick with points
\* sets the smoothed center and half-extent to the raw center and the
\* target half-extent, with none of the initial half-extent blended in (the
\* points (0,0,0), (1,0,0) seed center (0.5,0,0) and half-extent 0.65), and
\* every later tick with points sets, for the center and the half-extent,
\* smoothed = (1 - alpha) * smoothed + alpha * raw
SeedsThenBlends ==
    (Tick /\ ~NoPoints) =>
        IF ema_center = None
        THEN /\ SameVector(Value(ema_center'), RawCenter)
             /\ SameRatio(ema_limit', RawLimit)
             /\ (\E s \in Side :
                    /\ cached[s] = Some([den |-> 1, rows |-> << <<0, 0, 0>>, <<1, 0, 0>> >>])
                    /\ \A o \in Side \ {s} : cached[o] = None) =>
                   /\ ema_center' = Some([den |-> 2, v |-> <<1, 0, 0>>])
                   /\ ema_limit' = [n |-> 13, d |-> 20]
        ELSE LET rest == Ratio(alpha.d - alpha.n, alpha.d)
                 at(c, k) == Ratio(c.v[k], c.den)
             IN /\ \A k \in Axes :
                      at(Value(ema_center'), k) =
                          RPlus(RTimes(rest, at(Value(ema_center), k)),
                                RTimes(alpha, at(RawCenter, k)))
                /\ ema_limit' = RPlus(RTimes(rest, ema_limit), RTimes(alpha, RawLimit))
Smoothed == <<ema_center, ema_limit>>

\* C26 as claimed: seeding and blending as above, so that a tick whose
\* points equal the previous tick's leaves the smoothed state unchanged.
C26_SamePointsNoChange ==
    [][/\ SeedsThenBlends
       /\ (Tick /\ ~NoPoints /\ last_points = Some(cached)) => Smoothed' = Smoothed]_vars

\* C26 as amended: seeding and blending as above, so that a tick whose raw
\* center and target half-extent equal the smoothed ones leaves the smoothed
\* state unchanged; this is so on every tick whose points equal the
\* previous tick's when that tick seeded the state.
C26_SeedsThenBlends ==
    [][/\ SeedsThenBlends
       /\ (Tick /\ ~NoPoints /\ ema_center # None) =>
             /\ (SameVector(Value(ema_center), RawCenter) /\ SameRatio(ema_limit, RawLimit)) =>
                    Smoothed' = Smoothed
             /\ (nticks = 1 /\ last_points = Some(cached)) => Smoothed' = Smoothed]_vars

\* with alpha below 1, the first tick seeded the state from one array, and
\* the second and the third tick both saw another array: the third moved the
\* smoothed half-extent again
C26_Witness ==
    /\ nticks = 3
    /\ alpha.n < alpha.d
    /\ last_points = Some(cached)
    /\ target # None
    /\ ema_center # None
    /\ ~SameRatio(ema_limit, RawLimit)
    /\ ~SameVector(Value(ema_center), RawCenter)

ReturnedPoints(s) == mside = s /\ pts # None
\* wrist_point has returned a position for side s
ReturnedWrist(s) == mside = s /\ wpt # None

\* the step in which world_points returns an array for side s
PointsReturn(s) == mside = s /\ pts = None /\ pts' # None
\* the step in which world_points returns None for side s: at its first
\* test, or at "return self.landmarks_local"
PointsAbsent(s) ==
    /\ mside = s
    /\ \/ mpc = "wp_landmarks" /\ mpc' = "wrist_check"
       \/ mpc = "wp_local" /\ mpc' = "wrist_check" /\ pts' = None
\* the steps in which wrist_point returns a position, and None, for side s
WristReturn(s) == mside = s /\ wpt = None /\ wpt' # None
WristAbsent(s) == mside = s /\ mpc = "wrist_check" /\ mpc' = "fingers"

\* no step takes a stored field of a HandState back to None
StoredStays ==
    \A s \in Side :
        /\ hands[s].wrist_position # None => hands'[s].wrist_position # None
        /\ hands[s].wrist_quat # None => hands'[s].wrist_quat # None
        /\ hands[s].landmarks_local # None => hands'[s].landmarks_local # None

\* C28: once wrist_point or world_points has returned a value for a side,
\* it never returns None for that side again, whatever records, undecodable
\* reads, connection closes or stop follow.  Every step of every thread
\* keeps a stored wrist position, wrist quaternion and landmark array from
\* going back to None; world_points returns an array only while landmarks
\* are stored for the side and None only while none are stored, and
\* wrist_point likewise with the stored wrist position.
C28_AvailabilityMonotonic ==
    [][/\ StoredStays
       /\ \A s \in Side :
            /\ PointsReturn(s) => hands[s].landmarks_local # None
            /\ PointsAbsent(s) => hands[s].landmarks_local = None
            /\ WristReturn(s) => hands[s].wrist_position # None
            /\ WristAbsent(s) => hands[s].wrist_position = None]_vars

\* world_points and wrist_point return values for the right side from the
\* first records, after both records that two connections delivered, the
\* second of them too short to be stored, and after a connection was closed
C28_Witness ==
    /\ ReturnedPoints("right")
    /\ ReturnedWrist("right")
    /\ nrecs = MaxConnRecs
    /\ budget = 0
    /\ \A t \in Writers : wr[t].step = "idle"
    /\ hands["right"].last_update = "updated"
    /\ \E c \in Conns : conn[c] = "closed"

\* ===================================================================
\* Claims checked under CarrySpec
\* ===================================================================

\* the step in which the read loop of a connection ends, by a zero-length
\* read or by the stop flag
ConnectionEnds == fpc # "ended" /\ fpc' = "ended" /\ f_end' \in {"eof", "stop"}
\* the step in which the next connection is accepted
ConnectionStarts == conn_threads' # conn_threads
\* the last n lines handed to _handle_line
LastHandled(n) == SubSeq(handled, Len(handled) - n + 1, Len(handled))

\* C29: when a connection ends by a zero-length read or by stop, the
\* carry-over that no newline terminated is discarded.  The ending step
\* hands nothing to _handle_line and changes no HandState; the next
\* connection starts with an empty buffer and hands nothing over as it
\* starts; a HandState changes only in a step that hands a line to
\* _handle_line; and whenever a connection is between reads or has ended by
\* a zero-length read or by stop, the lines handed over on it are exactly
\* the non-empty newline-terminated segments of the text read on that
\* connection, with the buffer the text after its last newline.
C29_CarryOverDiscarded ==
    /\ []((fpc \in {"loop", "wait"} \/ (fpc = "ended" /\ f_end \in {"eof", "stop"})) =>
            /\ Len(handled) >= Len(TerminatedSegments(decoded))
            /\ LastHandled(Len(TerminatedSegments(decoded))) = TerminatedSegments(decoded)
            /\ buffer = AfterLastNewline(decoded))
    /\ [][/\ ConnectionEnds => handled' = handled /\ hands' = hands
          /\ ConnectionStarts => buffer' = <<>> /\ handled' = handled /\ hands' = hands
          /\ hands' # hands => Len(handled') = Len(handled) + 1]_vars

\* the first connection sent a landmarks record and the start of a wrist
\* record and was ended by a zero-length read, with that start as its
\* carry-over; the second connection sent the rest of the wrist record and a
\* newline: the second line handed over is that rest alone, and no wrist
\* pose is stored
C29_Witness ==
    /\ Len(conn_threads) = 2
    /\ fpc = "loop"
    /\ f_end = "eof"
    /\ handled = <<LeftLandmarksLine, Drop(RightWristLine, Len(Unfinished))>>
    /\ buffer = <<>>
    /\ hands["left"].landmarks_local # None
    /\ hands["right"].wrist_position = None

\* ===================================================================
\* Claims checked under TallySpec
\* ===================================================================

\* the pass of the per-connection loop of run_tcp in which conn.recv
\* returned no bytes, and a pass that leaves the loop by break
ZeroLengthRead == fpc = "read" /\ wire = <<>> /\ data' = <<>> /\ f_end' # "OSError"
Break == fpc = "read" /\ fpc' = "ended" /\ f_end' = "break"

\* the loop is left by break only in a pass whose read was zero-length
EndsOnlyOnClose == [][Break => data' = <<>>]_vars
\* a pass whose read was zero-length leaves the loop
CloseEnds == [][ZeroLengthRead => Break]_vars

\* C30: the per-connection read loop of the inter-arrival tool ends when
\* and only when the peer has closed the connection (a zero-length read): a
\* chunk of newlines alone with an empty carry-over does not end it, and a
\* close that arrives while the carry-over is non-empty does end it.
C30_EndsExactlyOnClose == EndsOnlyOnClose /\ CloseEnds

====
